---------------------------- MODULE Spec2Model ----------------------------
(***************************************************************************)
(* A model of the MapGIS reader of ConvertMapGIS (src/pymapgis.py): the    *)
(* constructor of MapGisReader (file type detection, header table,         *)
(* attribute table, coordinate system, point/line geometry, GeoDataFrame   *)
(* build), to_file, and the helpers _deduplicate_columns and               *)
(* get_multipolygons.                                                      *)
(*                                                                         *)
(* Conventions.                                                            *)
(*  - An optional value (Python None or a value) is a set: {} is None and  *)
(*    {v} is the value v.                                                  *)
(*  - A text is a sequence of characters, each character a string; a CJK   *)
(*    character is written by its code point ("U9762").                    *)
(*  - A number of the file is an integer; a coordinate scale is the        *)
(*    rational num / den, den a power of 1000, because the code divides    *)
(*    scales by 1000.  Floating point rounding is not modelled.            *)
(*  - A raised exception is the exception's class name in `error`; "" is   *)
(*    no exception.                                                        *)
(***************************************************************************)
EXTENDS Integers, Sequences, FiniteSets, TLC

VARIABLES
    pc,               \* position of the running call
    error,            \* class name of the exception raised, "" when none
    file,             \* the content of the opened file (set at construction)
    io,               \* number of read/seek calls made on self.file by
                      \* _detect_shape_type and _read_headers
    scale_factor,     \* constructor parameter (optional)
    wkid,             \* self.wkid (optional)
    shape_type,       \* self.shape_type
    headers,          \* self.headers: the byte length of each of the 10 blocks
    coordinate_scale, \* self.coordinate_scale (optional rational)
    crs,              \* self.crs
    data,             \* self.data (attribute DataFrame)
    geom,             \* self.geom
    repaired,         \* self._data_repaired
    geodataframe,     \* self.geodataframe
    columns,          \* argument of _deduplicate_columns
    res_head,         \* result of _deduplicate_columns
    fields,           \* self.fields: (name, type, actual length) per field
    lines,            \* argument of get_multipolygons
    polygons,         \* result of get_multipolygons
    st_in,            \* _parse_polygons: the segments of a region (m at first)
    st_m,             \* _parse_polygons: m, the segments not yet in a chain
    st_ring,          \* _parse_polygons: ring, the chain that is growing
    st_lines,         \* _parse_polygons: lines, the chains closed off
    file_paths,       \* ConvertThread.file_paths: the content of each file
    current,          \* ConvertThread.run: the number of files gone through
    log,              \* the lines emitted on log_signal, [file, line]
    handles,          \* per file opened so far, whether its handle is open
    reader,           \* ConvertThread.run: the file of the reader the local
                      \* variable `reader` is bound to, 0 when unbound
    signals,          \* the emissions of progress_signal and finished_signal
    selected_files,   \* the widget: the number of files chosen (0: None or [])
    output_dir,       \* the widget: whether an output folder is chosen
    convert_button,   \* the widget: whether the convert button is enabled
    infobar,          \* the widget: the InfoBar shown last, "" when none
    threads,          \* the ConvertThreads started: [left, at], the files
                      \* left to convert and the position in run
    events            \* the finished_signal emissions queued for the widget

vars == <<pc, error, file, io, scale_factor, wkid, shape_type, headers,
          coordinate_scale, crs, data, geom, repaired, geodataframe,
          columns, res_head, fields, lines, polygons,
          st_in, st_m, st_ring, st_lines,
          file_paths, current, log, handles, reader, signals,
          selected_files, output_dir, convert_button, infobar, threads, events>>

readerVars == <<file, io, scale_factor, wkid, shape_type, headers,
                coordinate_scale, crs>>
tableVars == <<data, geom, repaired, geodataframe>>
dedupVars == <<columns, res_head, fields>>
polyVars == <<lines, polygons>>
stitchVars == <<st_in, st_m, st_ring, st_lines>>
guiVars == <<selected_files, output_dir, convert_button, infobar, threads, events>>
batchVars == <<file_paths, current, log, handles, reader, signals>>

-----------------------------------------------------------------------------
(* Generic helpers *)

None == {}
Some(v) == {v}
Val(o) == CHOOSE v \in o : TRUE

Max(a, b) == IF a >= b THEN a ELSE b
Min(a, b) == IF a <= b THEN a ELSE b

Range(s) == {s[i] : i \in 1..Len(s)}

Reverse(seq) == [k \in 1..Len(seq) |-> seq[Len(seq) + 1 - k]]
Last(seq) == seq[Len(seq)]
Front(seq) == SubSeq(seq, 1, Len(seq) - 1)

\* Sequences over S of length 0..n
SeqsUpTo(S, n) == UNION {[1..k -> S] : k \in 0..n}

\* the values of attributes that are not set yet
GeometryName == <<"g", "e", "o", "m", "e", "t", "r", "y">>
NoFile == [tag |-> "none"]
NoCrs == [kind |-> "unassigned"]
NoFrame == [n |-> 0, cols |-> <<>>]
NoGdf == [n |-> 0, cols |-> <<>>, geocol |-> GeometryName, geometry |-> <<>>,
          crs |-> NoCrs]

\* Python's str(n) for n >= 0, as a sequence of characters
RECURSIVE Digits(_)
Digits(n) ==
    LET d == <<"0","1","2","3","4","5","6","7","8","9">>[(n % 10) + 1]
    IN  IF n < 10 THEN <<d>> ELSE Digits(n \div 10) \o <<d>>

-----------------------------------------------------------------------------
(* _deduplicate_columns                                                    *)

\* f"{col}-{idx}"
DashName(col, idx) == col \o <<"-">> \o Digits(idx)

\* the while loop: the first idx, counting from idx, whose name is not seen
RECURSIVE FirstFree(_, _, _)
FirstFree(col, idx, seen) ==
    IF DashName(col, idx) \in seen THEN FirstFree(col, idx + 1, seen)
    ELSE DashName(col, idx)

RECURSIVE DedupLoop(_, _, _, _)
DedupLoop(cols, i, seen, result) ==
    IF i > Len(cols) THEN result
    ELSE LET col == cols[i]
             new_col == IF col \notin seen THEN col ELSE FirstFree(col, 1, seen)
         IN  DedupLoop(cols, i + 1, seen \cup {new_col}, Append(result, new_col))

\* the same loop without seen.add(new_col) for a renamed column
RECURSIVE DedupLoopNoAdd(_, _, _, _)
DedupLoopNoAdd(cols, i, seen, result) ==
    IF i > Len(cols) THEN result
    ELSE LET col == cols[i]
             new_col == IF col \notin seen THEN col ELSE FirstFree(col, 1, seen)
         IN  DedupLoopNoAdd(cols, i + 1, seen \cup {col}, Append(result, new_col))

Mut_deduplicate_columns(cols) == DedupLoopNoAdd(cols, 1, {}, <<>>)

_deduplicate_columns(cols) == DedupLoop(cols, 1, {}, <<>>)

\* Bound: the longest column list given to _deduplicate_columns
MaxCols == 4

NameID == <<"I", "D">>
NameA == <<"A">>
NameB == <<"B">>
NameA1 == <<"A", "-", "1">>
NameA2 == <<"A", "-", "2">>
DedupNames == {NameA, NameB, NameA1, NameA2}

-----------------------------------------------------------------------------
(* get_multipolygons                                                       *)
(*                                                                         *)
(* A ring is its list of vertices <<x, y>>.  The rings of the model are    *)
(* axis-parallel squares with corners (lo,lo) and (hi,hi), listed around   *)
(* the boundary (a simple ring) or crossing over the diagonals (a          *)
(* self-intersecting "bow-tie" ring, on which the polygon-in-polygon test  *)
(* of the geometry library fails).  The library's predicates are computed  *)
(* from the vertices.                                                      *)

Square(lo, hi) ==
    << <<lo, lo>>, <<hi, lo>>, <<hi, hi>>, <<lo, hi>>, <<lo, lo>> >>
Bowtie(lo, hi) ==
    << <<lo, lo>>, <<hi, hi>>, <<hi, lo>>, <<lo, hi>>, <<lo, lo>> >>

SetMin(S) == CHOOSE m \in S : \A x \in S : m <= x
SetMax(S) == CHOOSE m \in S : \A x \in S : m >= x
MinX(r) == SetMin({r[k][1] : k \in 1..Len(r)})
MaxX(r) == SetMax({r[k][1] : k \in 1..Len(r)})
MinY(r) == SetMin({r[k][2] : k \in 1..Len(r)})
MaxY(r) == SetMax({r[k][2] : k \in 1..Len(r)})

\* the ring crosses itself (the second edge is a diagonal)
SelfIntersecting(r) == r[2][1] # r[1][1] /\ r[2][2] # r[1][2]

\* shapely: Polygon(a).within(Polygon(b)) raises
PolygonWithinRaises(a, b) == SelfIntersecting(a) \/ SelfIntersecting(b)

\* shapely: Polygon(a).within(Polygon(b)) for two simple squares: no point
\* of a outside b (equal squares are within each other)
PolygonWithin(a, b) ==
    /\ MinX(b) <= MinX(a) /\ MaxX(a) <= MaxX(b)
    /\ MinY(b) <= MinY(a) /\ MaxY(a) <= MaxY(b)

Abs(x) == IF x >= 0 THEN x ELSE -x

\* shapely: Point(pt).within(Polygon(b)): pt in the interior of b.  The
\* interior of a bow-tie is its left and right triangle (even-odd rule).
PointWithin(pt, b) ==
    /\ MinX(b) < pt[1] /\ pt[1] < MaxX(b)
    /\ MinY(b) < pt[2] /\ pt[2] < MaxY(b)
    /\ SelfIntersecting(b) =>
          Abs(2 * pt[2] - (MinY(b) + MaxY(b))) < Abs(2 * pt[1] - (MinX(b) + MaxX(b)))

\* the except branch: np.array([... for pt in lines[i]]).any()
AnyPointWithin(a, b) == \E k \in 1..Len(a) : PointWithin(a[k], b)

\* `inside` for the pair (i, j)
Inside(a, b) ==
    IF PolygonWithinRaises(a, b) THEN AnyPointWithin(a, b)
    ELSE PolygonWithin(a, b)

\* the matrix `relation`
Relation(ls) ==
    [i \in 1..Len(ls) |-> [j \in 1..Len(ls) |->
        IF i # j /\ Inside(ls[i], ls[j]) THEN 1 ELSE 0]]

\* (relation[i] == 1).sum()
Containers(rel, i) == {j \in DOMAIN rel : rel[i][j] = 1}
RowSum(rel, i) == Cardinality(Containers(rel, i))

\* level_0 is a dict: a sequence of entries [key, val] in insertion order
HasKey(d, k) == \E e \in 1..Len(d) : d[e].key = k
AppendTo(d, k, ring) ==
    [e \in 1..Len(d) |->
        IF d[e].key = k THEN [d[e] EXCEPT !.val = Append(@, ring)] ELSE d[e]]

\* first loop: one entry per ring that no ring contains
RECURSIVE Level0Outer(_, _, _, _)
Level0Outer(ls, rel, i, d) ==
    IF i > Len(ls) THEN d
    ELSE Level0Outer(ls, rel, i + 1,
            IF RowSum(rel, i) = 0
            THEN Append(d, [key |-> i, val |-> <<ls[i]>>]) ELSE d)

\* second loop: a ring with exactly one container joins that ring's entry
RECURSIVE Level0Holes(_, _, _, _)
Level0Holes(ls, rel, i, d) ==
    IF i > Len(ls) THEN d
    ELSE IF RowSum(rel, i) = 1
         THEN LET idx == SetMin(Containers(rel, i))
                  d1 == IF HasKey(d, idx) THEN d
                        ELSE Append(d, [key |-> idx, val |-> <<>>])
              IN  Level0Holes(ls, rel, i + 1, AppendTo(d1, idx, ls[i]))
         ELSE Level0Holes(ls, rel, i + 1, d)

\* the second loop with the hole put first in its container's entry
RECURSIVE Level0HolesFirst(_, _, _, _)
Level0HolesFirst(ls, rel, i, d) ==
    IF i > Len(ls) THEN d
    ELSE IF RowSum(rel, i) = 1
         THEN LET idx == SetMin(Containers(rel, i))
                  d1 == IF HasKey(d, idx) THEN d
                        ELSE Append(d, [key |-> idx, val |-> <<>>])
              IN  Level0HolesFirst(ls, rel, i + 1,
                     [e \in 1..Len(d1) |->
                        IF d1[e].key = idx
                        THEN [d1[e] EXCEPT !.val = <<ls[i]>> \o @] ELSE d1[e]])
         ELSE Level0HolesFirst(ls, rel, i + 1, d)

Mut_Level0(ls, rel) ==
    Level0HolesFirst(ls, rel, 1, Level0Outer(ls, rel, 1, <<>>))

Level0(ls, rel) == Level0Holes(ls, rel, 1, Level0Outer(ls, rel, 1, <<>>))

\* shapely.geometry.Polygon(shell, holes)
Polygon(shell, holes) == [shell |-> shell, holes |-> holes]

\* [Polygon(i[0], i[1:]) for i in level_0.values()]
PolygonsOf(d) == [e \in 1..Len(d) |-> Polygon(Head(d[e].val), Tail(d[e].val))]

\* [lines[i] for i in np.argwhere((relation == 1).sum(1) > 1).flatten()]
RECURSIVE Ambiguous(_, _, _)
Ambiguous(ls, rel, i) ==
    IF i > Len(ls) THEN <<>>
    ELSE (IF RowSum(rel, i) > 1 THEN <<ls[i]>> ELSE <<>>) \o Ambiguous(ls, rel, i + 1)

\* The result is [polys, error].  The function is deterministic, so a call
\* whose recursive call has the same argument never returns: Python ends it
\* with RecursionError.
RECURSIVE get_multipolygons(_)
get_multipolygons(ls) ==
    LET rel == Relation(ls)
        temp == PolygonsOf(Level0(ls, rel))
        rest == Ambiguous(ls, rel, 1)
    IN  IF ~ \E i \in 1..Len(ls) : RowSum(rel, i) = 2
        THEN [polys |-> temp, error |-> ""]
        ELSE IF rest = ls
             THEN [polys |-> <<>>, error |-> "RecursionError"]
             ELSE LET sub == get_multipolygons(rest)
                  IN  IF sub.error # "" THEN sub
                      ELSE [polys |-> temp \o sub.polys, error |-> ""]

\* Bounds: the number of rings given to get_multipolygons and the largest
\* coordinate of a ring
MaxRings == 3
MaxCoord == 3

Intervals == {iv \in (0..MaxCoord) \X (0..MaxCoord) : iv[1] < iv[2]}
Rings ==
    {Square(iv[1], iv[2]) : iv \in Intervals} \cup
    {Bowtie(iv[1], iv[2]) : iv \in Intervals}

-----------------------------------------------------------------------------
(* to_file: fix_large_values and _sanitize_field_names                     *)
(*                                                                         *)
(* A DataFrame is [n, cols]: n rows and the columns [name, dtype, vals] in *)
(* order; a GeoDataFrame adds the geometry column (its name and values)    *)
(* and the crs.  A cell is an optional value, {} being null (NaN).  A      *)
(* number is m * 10^e with a one digit mantissa m, which writes 5, 1e12,   *)
(* 2e13 and -3e13 exactly.                                                 *)

Num(m, e) == [m |-> m, e |-> e]
Zero == Num(0, 0)

\* abs(v) > t for two such numbers (t > 0)
AbsGreater(v, t) ==
    /\ v.m # 0
    /\ \/ v.e > t.e
       \/ v.e = t.e /\ Abs(v.m) > t.m

\* threshold=1e12
threshold == Num(1, 12)

NumericDtypes == {"float64", "float32", "int64", "int32"}

\* large_values = (col.abs() > threshold) | (col.isnull());
\* df.loc[large_values, column_name] = 0.0
FixCell(cell, t) ==
    IF cell = None THEN Some(Zero)
    ELSE IF AbsGreater(Val(cell), t) THEN Some(Zero) ELSE cell

\* the same with >= in place of >
Mut_fix_large_values(col, t) ==
    IF col.dtype \in NumericDtypes
    THEN [col EXCEPT !.vals = [r \in DOMAIN col.vals |->
            IF col.vals[r] # None /\ Val(col.vals[r]) = Num(1, 12) THEN Some(Zero)
            ELSE FixCell(col.vals[r], t)]]
    ELSE col

fix_large_values(col, t) ==
    IF col.dtype \in NumericDtypes
    THEN [col EXCEPT !.vals = [r \in DOMAIN col.vals |-> FixCell(col.vals[r], t)]]
    ELSE col

field_map ==
    <<"I", "D">> :> <<"I", "D">> @@
    <<"U9762", "U79EF">> :> <<"A", "r", "e", "a">> @@
    <<"U5468", "U957F">> :> <<"P", "e", "r", "i", "m", "e", "t", "e", "r">> @@
    <<"G", "B">> :> <<"G", "B">> @@
    <<"S", "h", "a", "p", "e", "_", "L", "e", "n", "g">> :> <<"S", "h", "a", "p", "e", "_", "L", "e", "n", "g">> @@
    <<"S", "h", "a", "p", "e", "_", "A", "r", "e", "a">> :> <<"S", "h", "a", "p", "e", "_", "A", "r", "e", "a">> @@
    <<"I", "D", "-", "1">> :> <<"I", "D", "_", "1">> @@
    <<"U586B", "U5145", "U989C", "U8272">> :> <<"F", "i", "l", "l", "C", "o", "l", "o", "r">> @@
    <<"U586B", "U5145", "U7B26", "U53F7">> :> <<"F", "i", "l", "l", "S", "y", "m", "b", "o", "l">> @@
    <<"U56FE", "U6848", "U9AD8", "U5EA6">> :> <<"P", "a", "t", "t", "e", "r", "n", "H">> @@
    <<"U56FE", "U6848", "U5BBD", "U5EA6">> :> <<"P", "a", "t", "t", "e", "r", "n", "W">> @@
    <<"U56FE", "U6848", "U989C", "U8272">> :> <<"P", "a", "t", "t", "e", "r", "n", "C">> @@
    <<"U5750", "U6807", "X">> :> <<"C", "o", "o", "r", "d", "X">> @@
    <<"U5750", "U6807", "Y">> :> <<"C", "o", "o", "r", "d", "Y">> @@
    <<"U70B9", "U7C7B", "U578B">> :> <<"P", "n", "t", "T", "y", "p", "e">> @@
    <<"U900F", "U660E", "U8F93", "U51FA">> :> <<"T", "r", "a", "n", "s", "O", "u", "t">> @@
    <<"U989C", "U8272">> :> <<"C", "o", "l", "o", "r">> @@
    <<"U5B57", "U7B26", "U4E32">> :> <<"S", "t", "r", "T", "e", "x", "t">> @@
    <<"U5B57", "U7B26", "U9AD8", "U5EA6">> :> <<"C", "h", "a", "r", "H">> @@
    <<"U5B57", "U7B26", "U5BBD", "U5EA6">> :> <<"C", "h", "a", "r", "W">> @@
    <<"U5B57", "U7B26", "U95F4", "U9694">> :> <<"C", "h", "a", "r", "S", "p", "c">> @@
    <<"U5B57", "U7B26", "U4E32", "U89D2", "U5EA6">> :> <<"S", "t", "r", "A", "n", "g">> @@
    <<"U4E2D", "U6587", "U5B57", "U4F53">> :> <<"F", "o", "n", "t", "C", "N">> @@
    <<"U897F", "U6587", "U5B57", "U4F53">> :> <<"F", "o", "n", "t", "E", "N">> @@
    <<"U5B57", "U5F62">> :> <<"F", "o", "n", "t", "S", "t", "y">> @@
    <<"U6392", "U5217">> :> <<"A", "r", "r", "a", "n", "g", "e">> @@
    <<"U5B50", "U56FE", "U53F7">> :> <<"S", "u", "b", "N", "o">> @@
    <<"U5B50", "U56FE", "U9AD8">> :> <<"S", "u", "b", "H">> @@
    <<"U5B50", "U56FE", "U5BBD">> :> <<"S", "u", "b", "W">> @@
    <<"U5B50", "U56FE", "U89D2", "U5EA6">> :> <<"S", "u", "b", "A", "n", "g">> @@
    <<"U5B50", "U56FE", "U7EBF", "U5BBD">> :> <<"S", "u", "b", "L", "W">> @@
    <<"U5B50", "U56FE", "U8F85", "U8272">> :> <<"S", "u", "b", "C", "o", "l", "2">> @@
    <<"U5706", "U534A", "U5F84">> :> <<"C", "R", "a", "d", "i", "u", "s">> @@
    <<"U5706", "U8F6E", "U5ED3", "U989C", "U8272">> :> <<"C", "C", "L", "R">> @@
    <<"U5706", "U7B14", "U5BBD">> :> <<"C", "P", "e", "n", "W">> @@
    <<"U5706", "U586B", "U5145">> :> <<"C", "F", "i", "l", "l">> @@
    <<"U5F27", "U534A", "U5F84">> :> <<"A", "R", "a", "d", "i", "u", "s">> @@
    <<"U5F27", "U8D77", "U59CB", "U89D2", "U5EA6">> :> <<"A", "S", "t", "a", "r", "t", "A", "n", "g">> @@
    <<"U5F27", "U7EC8", "U6B62", "U89D2", "U5EA6">> :> <<"A", "E", "n", "d", "A", "n", "g">> @@
    <<"U5F27", "U7B14", "U5BBD">> :> <<"A", "P", "e", "n", "W">> @@
    <<"U7EBF", "U578B">> :> <<"L", "i", "n", "e", "T", "y", "p", "e">> @@
    <<"U7EBF", "U989C", "U8272">> :> <<"L", "i", "n", "e", "C", "o", "l">> @@
    <<"U7EBF", "U5BBD">> :> <<"L", "i", "n", "e", "W", "i", "d">> @@
    <<"U7EBF", "U7C7B", "U578B">> :> <<"L", "i", "n", "e", "K", "i", "n", "d">> @@
    <<"X", "U7CFB", "U6570">> :> <<"X", "F", "a", "c", "t">> @@
    <<"Y", "U7CFB", "U6570">> :> <<"Y", "F", "a", "c", "t">> @@
    <<"U8F85", "U52A9", "U989C", "U8272">> :> <<"A", "u", "x", "C", "o", "l">>

\* str.isalnum() or '_' for the characters of the model
AlnumChars ==
    {"a", "b", "c", "d", "e", "f", "g", "h", "i", "j", "k", "l", "m",
     "n", "o", "p", "q", "r", "s", "t", "u", "v", "w", "x", "y", "z",
     "A", "B", "C", "D", "E", "F", "G", "H", "I", "J", "K", "L", "M",
     "N", "O", "P", "Q", "R", "S", "T", "U", "V", "W", "X", "Y", "Z",
     "0", "1", "2", "3", "4", "5", "6", "7", "8", "9"}
KeepChar(c) == c \in AlnumChars \/ c = "_"

\* pypinyin.pinyin(.., style=NORMAL) for one character: the syllable of a
\* CJK character, any other character as it is
PinyinTable ==
    "U540D" :> <<"m", "i", "n", "g">> @@
    "U79F0" :> <<"c", "h", "e", "n", "g">> @@
    "U5730" :> <<"d", "i">> @@
    "U7C7B" :> <<"l", "e", "i">>
PinyinOf(c) == IF c \in DOMAIN PinyinTable THEN PinyinTable[c] ELSE <<c>>

RECURSIVE Flatten(_)
Flatten(ss) == IF ss = <<>> THEN <<>> ELSE Head(ss) \o Flatten(Tail(ss))

\* the pinyin of a name, every character that is not alphanumeric or '_'
\* replaced by '_'
Transliterate(col) ==
    LET py == Flatten([k \in 1..Len(col) |-> PinyinOf(col[k])])
    IN  [k \in 1..Len(py) |-> IF KeepChar(py[k]) THEN py[k] ELSE "_"]

Prefix(s, n) == SubSeq(s, 1, Min(Len(s), n))

\* the name length limit of the target format
MaxNameLen == 10

\* the while loop of a mapped name: eng_col_1, eng_col_2, ...
RECURSIVE FreeMapped(_, _, _)
FreeMapped(eng_col, idx, used) ==
    LET new_eng_col == eng_col \o <<"_">> \o Digits(idx)
    IN  IF new_eng_col \in used THEN FreeMapped(eng_col, idx + 1, used)
        ELSE new_eng_col

Mut_FreeUnmapped(orig, pinyin, idx, used) == pinyin

\* the while loop of an unmapped name: orig cut to make room for _idx
RECURSIVE FreeUnmapped(_, _, _, _)
FreeUnmapped(orig, pinyin, idx, used) ==
    IF pinyin \in used
    THEN LET suffix == <<"_">> \o Digits(idx)
             base == IF Len(orig) > MaxNameLen - Len(suffix)
                     THEN Prefix(orig, MaxNameLen - Len(suffix)) ELSE orig
         IN  FreeUnmapped(orig, base \o suffix, idx + 1, used)
    ELSE pinyin

SanitizeOne(col, used) ==
    IF col \in DOMAIN field_map
    THEN IF field_map[col] \in used THEN FreeMapped(field_map[col], 1, used)
         ELSE field_map[col]
    ELSE LET t == Prefix(Transliterate(col), MaxNameLen)
             pinyin == IF t = <<>> THEN <<"f", "i", "e", "l", "d">> ELSE t
         IN  FreeUnmapped(pinyin, pinyin, 1, used)

RECURSIVE SanitizeLoop(_, _, _, _)
SanitizeLoop(cols, i, used, new_columns) ==
    IF i > Len(cols) THEN new_columns
    ELSE LET n == SanitizeOne(cols[i], used)
         IN  SanitizeLoop(cols, i + 1, used \cup {n}, Append(new_columns, n))

\* df.columns of a GeoDataFrame: the attribute columns, then the geometry
ColumnNames(df) == [k \in 1..Len(df.cols) |-> df.cols[k].name] \o <<df.geocol>>

\* df.columns = new_columns
_sanitize_field_names(df) ==
    LET new_columns == SanitizeLoop(ColumnNames(df), 1, {}, <<>>)
    IN  [df EXCEPT !.cols = [k \in 1..Len(df.cols) |->
                                [df.cols[k] EXCEPT !.name = new_columns[k]]],
                   !.geocol = new_columns[Len(new_columns)]]

\* the frame after the numeric columns were fixed and, for a .shp target,
\* the columns renamed; this is what geodataframe.to_file writes
to_file(gdf, ext) ==
    LET fixed == [gdf EXCEPT !.cols = [k \in 1..Len(gdf.cols) |->
                        fix_large_values(gdf.cols[k], threshold)]]
    IN  IF ext = "shp" THEN _sanitize_field_names(fixed) ELSE fixed


-----------------------------------------------------------------------------
(* _build_geodataframe                                                     *)

\* data.iloc[:k]
ILoc(df, k) ==
    [n |-> Min(df.n, k),
     cols |-> [c \in 1..Len(df.cols) |->
                 [df.cols[c] EXCEPT !.vals = Prefix(@, k)]]]

\* gpd.GeoDataFrame(data, geometry=geom) raises ValueError("Length of values
\* (..) does not match length of index (..)"): the geometry column is set
\* with frame[name] = values, which pandas refuses when the lengths differ,
\* except on a frame without rows, whose index it then takes from the values
GeoDataFrameRaises(df, g) == df.n # Len(g) /\ ~(df.n = 0 /\ Len(g) > 0)

\* an integer column cannot hold NaN: reindexing makes it float64
NullableDtype(dt) == IF dt \in {"int64", "int32"} THEN "float64" ELSE dt

\* gpd.GeoDataFrame(data, geometry=geom) when it does not raise
GeoDataFrame(df, g) ==
    [n |-> Len(g),
     cols |-> [c \in 1..Len(df.cols) |->
                 IF df.n = Len(g) THEN df.cols[c]
                 ELSE [name |-> df.cols[c].name,
                       dtype |-> NullableDtype(df.cols[c].dtype),
                       vals |-> [r \in 1..Len(g) |-> None]]],
     geocol |-> GeometryName,
     geometry |-> g,
     crs |-> [kind |-> "none"]]

\* `if self.crs:` for '' and None is false, for a CRS object true
Truthy(c) == c.kind \notin {"empty", "none"}

\* if self.crs: self.geodataframe.crs = self.crs
WithCrs(gdf, c) == IF Truthy(c) THEN [gdf EXCEPT !.crs = c] ELSE gdf

\* The result of _build_geodataframe: the new values of self.data,
\* self.geom, self._data_repaired, self.geodataframe and the exception.
\* Reading self.crs raises AttributeError when _parse_crs never assigned it.
_build_geodataframe(df, g, c, gdf0) ==
    LET min_length == Min(df.n, Len(g))
        raises == GeoDataFrameRaises(df, g)
        data1 == IF raises THEN ILoc(df, min_length) ELSE df
        geom1 == IF raises THEN Prefix(g, min_length) ELSE g
    IN  IF c.kind = "unassigned"
        THEN [data |-> data1, geom |-> geom1, repaired |-> raises,
              geodataframe |-> gdf0, error |-> "AttributeError"]
        ELSE [data |-> data1, geom |-> geom1, repaired |-> raises,
              geodataframe |-> WithCrs(GeoDataFrame(data1, geom1), c),
              error |-> ""]

BuildGeoDataFrame ==
    /\ pc = "build"
    /\ LET r == _build_geodataframe(data, geom, crs, geodataframe)
       IN  /\ data' = r.data
           /\ geom' = r.geom
           /\ repaired' = r.repaired
           /\ geodataframe' = r.geodataframe
           /\ error' = r.error
           /\ pc' = IF r.error = "" THEN "constructed" ELSE "raised"
    /\ UNCHANGED <<batchVars, readerVars, dedupVars, polyVars, stitchVars, guiVars>>

-----------------------------------------------------------------------------
(* The file and the constructor                                            *)
(*                                                                         *)
(* The file is a record of its decoded sections:                           *)
(*   tag        the first 8 bytes (fewer in a shorter file)                *)
(*   preamble   bytes 8..15 (4 unused bytes and data_start) are present    *)
(*   hdrBytes   the number of bytes the file holds from data_start on, as  *)
(*              far as the 10 x 10 bytes of the header table go            *)
(*   vol0       the volume in header block 0 (point or line records)       *)
(*   proj_type, ellipsoid, scale, cl                                       *)
(*              the bytes at 109 and 110, the doubles at 143 and 151       *)
(*   fields     the descriptor table of the attribute table: per field its *)
(*              name (decoded), type code and offset in the record         *)
(*   record_length, record_count, rows                                     *)
(*              the declared record length and record count, and the bytes *)
(*              of the records the file holds after the header record      *)
(*   points     the (x, y) of the complete point records the file holds    *)
(*              after the first, skipped one                               *)
(*   lineRecs   per line record after the first: the declared point count, *)
(*              the (x, y) pairs the file holds at its offset, the width   *)
(*   topoVol, topo                                                         *)
(*              the volume in header block 3 and the complete topology     *)
(*              records the file holds after the first, each the 4 ints    *)
(*              <<node, node, left region, right region>>                  *)
(*   fillVol, fills                                                        *)
(*              the volume in header block 8 and the fill colour of the    *)
(*              complete region records the file holds after the first     *)

\* the tags, "^" standing for the byte 0x60 (a string of the model cannot
\* hold a backquote)
TagPoint == "WMAP^D22"
TagPolygon == "WMAP^D23"
TagLine == "WMAP^D21"
\* 8 bytes that are no recognised tag, 8 bytes that are not GBK text (a
\* lead byte without its trail byte), and a file of 4 bytes
TagOther == "WMAP^D24"
TagNotGbk == "WMAP^D2<81>"
TagShort == "WMAP"

type_dict == (TagPoint :> "POINT") @@ (TagPolygon :> "POLYGON") @@ (TagLine :> "LINE")

\* bytes.decode('gbk') raises UnicodeDecodeError
GbkDecodeRaises(bytes) == bytes = TagNotGbk

\* _detect_shape_type: [shape_type, io, error]; io counts the calls of
\* self.file.read and self.file.seek
_detect_shape_type(f) ==
    IF GbkDecodeRaises(f.tag)
    THEN [shape_type |-> "", io |-> 1, error |-> "UnicodeDecodeError"]
    ELSE IF f.tag \notin DOMAIN type_dict
         THEN [shape_type |-> "", io |-> 1, error |-> "InvalidFileError"]
         ELSE [shape_type |-> type_dict[f.tag], io |-> 2, error |-> ""]

\* the same with the 4 unused bytes read before the tag is looked up
Mut_detect_shape_type(f) ==
    IF GbkDecodeRaises(f.tag)
    THEN [shape_type |-> "", io |-> 1, error |-> "UnicodeDecodeError"]
    ELSE IF f.tag \notin DOMAIN type_dict
         THEN [shape_type |-> "", io |-> 2, error |-> "InvalidFileError"]
         ELSE [shape_type |-> type_dict[f.tag], io |-> 2, error |-> ""]

DetectShapeType ==
    /\ pc = "detect"
    /\ LET r == _detect_shape_type(file)
       IN  /\ shape_type' = r.shape_type
           /\ io' = io + r.io
           /\ error' = r.error
           /\ pc' = IF r.error = "" THEN "headers" ELSE "raised"
    /\ UNCHANGED <<batchVars,
                   file, scale_factor, wkid, headers, coordinate_scale, crs,
                   tableVars, dedupVars, polyVars, stitchVars, guiVars>>

\* the header table: 10 blocks of 10 bytes
HeaderCount == 10
HeaderSize == 10

\* self.file.read(10) for block i (from 0): what is left of the file there
BlockLen(f, i) == Max(0, Min(HeaderSize, f.hdrBytes - HeaderSize * i))

\* _read_headers: [headers, io, error]; headers is the length of each block
_read_headers(f) ==
    IF ~f.preamble
    THEN [headers |-> <<>>, io |-> 1, error |-> "struct.error"]
    ELSE [headers |-> [i \in 1..HeaderCount |-> BlockLen(f, i - 1)],
          io |-> 2 + HeaderCount, error |-> ""]

ReadHeaders ==
    /\ pc = "headers"
    /\ LET r == _read_headers(file)
       IN  /\ headers' = r.headers
           /\ io' = io + r.io
           /\ error' = r.error
           /\ pc' = IF r.error = "" THEN "feature" ELSE "raised"
    /\ UNCHANGED <<batchVars,
                   file, scale_factor, wkid, shape_type, coordinate_scale, crs,
                   tableVars, dedupVars, polyVars, stitchVars, guiVars>>

\* struct.unpack('2i', block[:-2]) raises unless the slice has 8 bytes
UnpackRaises(blockLen) == Max(0, blockLen - 2) # 8

-----------------------------------------------------------------------------
(* _parse_crs                                                              *)

\* a scale: the rational num / den
Scale(num, den) == [num |-> num, den |-> den]
\* the scale left as it is
Mut_Div1000(sc) == sc
\* self.coordinate_scale / 1000
Div1000(sc) == Scale(sc.num, sc.den * 1000)

\* the integer keys of ellip_dict (its key 'cgcs2000' equals no byte)
ellip_dict == {1, 2, 7, 9, 10, 11, 16, 116}

\* The packed central meridian dddmmss: the integer part of cl as decimal
\* text, cut into degrees [:-4], minutes [-4:-2] and seconds [-2:].  With
\* fewer than 5 digits the degrees are '' and int('') raises ValueError.
ClRaises(cl) == cl < 10000
\* the central meridian in arc seconds
ClSeconds(cl) == (cl \div 10000) * 3600 + ((cl \div 100) % 100) * 60 + (cl % 100)

\* the codes CRS.from_epsg knows, among those of the model
EpsgCodes == {4326, 4490}

\* str(self.wkid) == '0'
IsZeroText(w) == w = Some(0)

\* the second half of _parse_crs with the geographic branch taken whether
\* or not a wkid was given, and the wkid looked at only after it
Mut_ParseCrsProjection(f, w, sc, c) ==
    IF f.proj_type = 0 /\ f.ellipsoid \in ellip_dict
    THEN [crs |-> [kind |-> "longlat", ellps |-> f.ellipsoid],
          coordinate_scale |-> Some(sc), error |-> ""]
    ELSE IF w # None /\ Val(w) \in EpsgCodes
    THEN [crs |-> [kind |-> "epsg", code |-> Val(w)],
          coordinate_scale |-> Some(sc), error |-> ""]
    ELSE [crs |-> c, coordinate_scale |-> Some(sc),
          error |-> IF w # None THEN "CRSError" ELSE ""]

\* The second half of _parse_crs, from `if proj_type == 5`: sc and c are
\* self.coordinate_scale and self.crs as the first half left them
ParseCrsProjection(f, w, sc, c) ==
    IF f.proj_type = 5 /\ w = None
    THEN IF ClRaises(f.cl)
         THEN [crs |-> c, coordinate_scale |-> Some(sc), error |-> "ValueError"]
         ELSE IF f.ellipsoid \notin ellip_dict
              THEN [crs |-> c, coordinate_scale |-> Some(sc), error |-> "KeyError"]
              ELSE [crs |-> [kind |-> "tmerc", lon_0 |-> ClSeconds(f.cl),
                             ellps |-> f.ellipsoid],
                    coordinate_scale |-> Some(sc), error |-> ""]
    ELSE IF f.proj_type = 0 /\ w = None
    THEN IF f.ellipsoid \notin ellip_dict
         THEN [crs |-> c, coordinate_scale |-> Some(sc), error |-> "KeyError"]
         ELSE [crs |-> [kind |-> "longlat", ellps |-> f.ellipsoid],
               coordinate_scale |-> Some(sc), error |-> ""]
    ELSE IF f.proj_type \in {2, 3} /\ w = None
    THEN IF ClRaises(f.cl)
         THEN [crs |-> c, coordinate_scale |-> Some(Div1000(sc)),
               error |-> "ValueError"]
         ELSE [crs |-> [kind |-> "none"], coordinate_scale |-> Some(Div1000(sc)),
               error |-> ""]
    ELSE IF w # None
    THEN IF Val(w) \notin EpsgCodes
         THEN [crs |-> c, coordinate_scale |-> Some(sc), error |-> "CRSError"]
         ELSE [crs |-> [kind |-> "epsg", code |-> Val(w)],
               coordinate_scale |-> Some(sc), error |-> ""]
    ELSE [crs |-> c, coordinate_scale |-> Some(sc), error |-> ""]

\* the same without the early return for ellipsoid 0
Mut_parse_crs(f, cs, w, c0) ==
    LET scale_key == IF cs # None THEN 1 ELSE 0
        sc0 == IF cs # None THEN Val(cs) ELSE f.scale
    IN  IF f.ellipsoid \notin ellip_dict \/ sc0.num = 0
        THEN ParseCrsProjection(f, w,
                 IF scale_key = 1 THEN Div1000(sc0) ELSE Scale(1, 1),
                 [kind |-> "empty"])
        ELSE ParseCrsProjection(f, w, sc0, c0)

\* _parse_crs: [crs, coordinate_scale, error] from the file f,
\* self.coordinate_scale cs (optional), self.wkid w (optional) and self.crs
\* c0 before the call
_parse_crs(f, cs, w, c0) ==
    LET scale_key == IF cs # None THEN 1 ELSE 0
        sc0 == IF cs # None THEN Val(cs) ELSE f.scale
    IN  IF f.ellipsoid \notin ellip_dict \/ sc0.num = 0
        THEN IF f.ellipsoid = 0 /\ (w = None \/ IsZeroText(w))
             THEN [crs |-> [kind |-> "empty"], coordinate_scale |-> Some(sc0),
                   error |-> ""]
             ELSE ParseCrsProjection(f, w,
                      IF scale_key = 1 THEN Div1000(sc0) ELSE Scale(1, 1),
                      [kind |-> "empty"])
        ELSE ParseCrsProjection(f, w, sc0, c0)

-----------------------------------------------------------------------------
(* _parse_attributes and _parse_more_info                                  *)

\* int(vol / size): the quotient cut towards zero
PyInt(vol, size) == IF vol >= 0 THEN vol \div size ELSE -((-vol) \div size)

\* the size of a point record, of a line record
PointRecordSize == 93
LineRecordSize == 57

\* A byte is a number 0..255; a record is the sequence of its bytes.

\* the type codes the filter keeps
valid_types == 0..7

\* np.array(...)[mask]: the descriptors whose type is in valid_types, in
\* the order of the descriptor table
RECURSIVE KeptFields(_)
KeptFields(descs) ==
    IF descs = <<>> THEN <<>>
    ELSE (IF Head(descs).type \in valid_types THEN <<Head(descs)>> ELSE <<>>)
             \o KeptFields(Tail(descs))

\* row[start:end] for start, end >= 0
PySlice(row, start, end) == SubSeq(row, start + 1, Min(end, Len(row)))

\* value = row[start_idx:end_idx] of the j-th kept field: to the offset of
\* the next kept field, for the last kept field to the end of the row
FieldBytes(kept, j, row) ==
    PySlice(row, kept[j].offset,
            IF j < Len(kept) THEN kept[j + 1].offset ELSE Len(row))

\* the length of every field counted to the end of the record
Mut_FieldActualLength(kept, j, record_length) == record_length - kept[j].offset

\* field_actual_lengths: offsets[j+1] - offsets[j], offsets ending with
\* record_length
FieldActualLength(kept, j, record_length) ==
    (IF j < Len(kept) THEN kept[j + 1].offset ELSE record_length) - kept[j].offset

\* struct.unpack of a little-endian signed integer of Len(value) bytes
RECURSIVE Unsigned(_)
Unsigned(value) ==
    IF value = <<>> THEN 0 ELSE Head(value) + 256 * Unsigned(Tail(value))
Signed(value) ==
    Unsigned(Front(value))
        + (IF Last(value) >= 128 THEN Last(value) - 256 ELSE Last(value))
              * (IF Len(value) = 4 THEN 65536 * 256 ELSE 256)

\* GBK: a byte below 0x80 is one character, a lead byte 0x81..0xFE with a
\* trail byte 0x40..0xFE (not 0x7F) is one character, anything else is
\* invalid
IsLead(b) == 129 <= b /\ b <= 254
IsTrail(b) == 64 <= b /\ b <= 254 /\ b # 127

\* the characters of the model: NUL, A, B, C and the two-byte character
\* B5 E3 (U+70B9)
AsciiChar(b) ==
    IF b = 0 THEN "U0000" ELSE IF b = 65 THEN "A" ELSE IF b = 66 THEN "B"
    ELSE IF b = 67 THEN "C" ELSE "?"
GbkChar(lead, trail) == IF lead = 181 /\ trail = 227 THEN "U70B9" ELSE "U4E00"

\* the position (from 0) of the first byte of value that cannot be
\* decoded, counted from position p; -1 when all of value decodes
RECURSIVE GbkErrorPosition(_, _)
GbkErrorPosition(value, p) ==
    IF p >= Len(value) THEN -1
    ELSE IF value[p + 1] < 128 THEN GbkErrorPosition(value, p + 1)
    ELSE IF IsLead(value[p + 1]) /\ p + 1 < Len(value) /\ IsTrail(value[p + 2])
         THEN GbkErrorPosition(value, p + 2)
    ELSE p

\* value.decode('gbk', errors='replace'): each byte that cannot be decoded
\* becomes U+FFFD and the decoding goes on with the next byte
RECURSIVE GbkDecodeReplace(_)
GbkDecodeReplace(value) ==
    IF value = <<>> THEN <<>>
    ELSE IF Head(value) < 128
         THEN <<AsciiChar(Head(value))>> \o GbkDecodeReplace(Tail(value))
    ELSE IF IsLead(Head(value)) /\ Len(value) > 1 /\ IsTrail(value[2])
         THEN <<GbkChar(value[1], value[2])>> \o GbkDecodeReplace(Tail(Tail(value)))
    ELSE <<"UFFFD">> \o GbkDecodeReplace(Tail(value))

\* text.strip('\x00')
RECURSIVE StripLeft(_)
StripLeft(text) ==
    IF text # <<>> /\ Head(text) = "U0000" THEN StripLeft(Tail(text)) ELSE text
Strip(text) == Reverse(StripLeft(Reverse(StripLeft(text))))

\* re.search(r'in position (\\d+)', str(err)): the pattern of this raw
\* string is 'in position (', a backslash, one or more 'd', ')'.  The text
\* of a UnicodeDecodeError has no backslash: no match.
PositionMatches == FALSE

\* the branch t == 0: the text of a string field
DecodeString(value) ==
    IF GbkErrorPosition(value, 0) = -1 THEN Strip(GbkDecodeReplace(value))
    ELSE IF PositionMatches
         THEN GbkDecodeReplace(PySlice(value, 0, GbkErrorPosition(value, 0)))
    ELSE Strip(GbkDecodeReplace(value))

\* the size struct.unpack asks for
TypeSize(t) == IF t = 1 THEN 1 ELSE IF t = 2 THEN 2 ELSE IF t = 3 THEN 4
               ELSE IF t = 4 THEN 4 ELSE 8

\* the value of a field of type t from its bytes: [val, error].  A float
\* or double (4, 5) is kept as its bits; the types date and time (6, 7)
\* are not in the files of the model.
DecodeValue(t, value) ==
    IF t = 0 THEN [val |-> DecodeString(value), error |-> ""]
    ELSE IF t = 1
         THEN IF Len(value) # 1 THEN [val |-> 0, error |-> "TypeError"]
              ELSE [val |-> Num(value[1], 0), error |-> ""]
    ELSE IF Len(value) # TypeSize(t) THEN [val |-> 0, error |-> "struct.error"]
    ELSE IF t \in {2, 3} THEN [val |-> Num(Signed(value), 0), error |-> ""]
    ELSE [val |-> [bits |-> value], error |-> ""]

\* the dtype pd.DataFrame(data, columns=field_names) gives a column
FieldDtype(t, rows) ==
    IF rows = 0 THEN "object"
    ELSE IF t \in {1, 2, 3} THEN "int64"
    ELSE IF t \in {4, 5} THEN "float64"
    ELSE "object"

\* range(record_count - 1)
AttributeRows(f) == Max(0, f.record_count - 1)

\* the bytes of the file that follow the descriptor table: the header
\* record (here record_length bytes 0xAA) and the records the file holds
HeaderRecord(f) == [k \in 1..f.record_length |-> 170]
AttributeBlock(f) == HeaderRecord(f) \o Flatten(f.rows)

\* self.file.read(n) at the position pos of bytes: n bytes or those that
\* are left, all that are left for n < 0
FileRead(bytes, pos, n) ==
    IF n < 0 THEN PySlice(bytes, pos, Len(bytes)) ELSE PySlice(bytes, pos, pos + n)

\* all_attr_bytes read from the start of the block, the header record in it
Mut_all_attr_bytes(f) ==
    FileRead(AttributeBlock(f), 0, f.record_length * (f.record_count - 1))

\* self.file.read(record_length) and then
\* all_attr_bytes = self.file.read(record_length * (record_count - 1))
all_attr_bytes(f) ==
    FileRead(AttributeBlock(f), Len(FileRead(AttributeBlock(f), 0, f.record_length)),
             f.record_length * (f.record_count - 1))

\* row = all_attr_bytes[i * record_length: (i + 1) * record_length], the
\* rows counted from 1 here
RowBytes(f, i) ==
    PySlice(all_attr_bytes(f), (i - 1) * f.record_length, i * f.record_length)

\* the first exception of the loops over the rows and the kept fields
AttributeLoopError(f) ==
    LET kept == KeptFields(f.fields)
        bad == {rj \in (1..AttributeRows(f)) \X (1..Len(kept)) :
                  DecodeValue(kept[rj[2]].type,
                              FieldBytes(kept, rj[2], RowBytes(f, rj[1]))).error # ""}
        first == CHOOSE rj \in bad : \A o \in bad :
                     rj[1] < o[1] \/ (rj[1] = o[1] /\ rj[2] <= o[2])
    IN  IF bad = {} THEN ""
        ELSE DecodeValue(kept[first[2]].type,
                         FieldBytes(kept, first[2], RowBytes(f, first[1]))).error

\* type_dict of _parse_attributes: the name of a type code
field_type_dict(t) ==
    <<"string", "byte", "short", "int", "float", "double", "date", "time">>[t + 1]

\* self.fields: (name, type name, actual length) of each kept field
FieldList(f) ==
    LET kept == KeptFields(f.fields)
    IN  [j \in 1..Len(kept) |->
            [name |-> kept[j].name, type |-> field_type_dict(kept[j].type),
             length |-> FieldActualLength(kept, j, f.record_length)]]

\* the attribute table proper: pd.DataFrame(data, columns=field_names)
AttributeFrame(f) ==
    LET kept == KeptFields(f.fields)
    IN  [n |-> AttributeRows(f),
         cols |-> [c \in 1..Len(kept) |->
                     [name |-> kept[c].name,
                      dtype |-> FieldDtype(kept[c].type, AttributeRows(f)),
                      vals |-> [r \in 1..AttributeRows(f) |->
                                  Some(DecodeValue(kept[c].type,
                                           FieldBytes(kept, c, RowBytes(f, r))).val)]]]]

NameCoordX == <<"U5750", "U6807", "X">>
NameCoordY == <<"U5750", "U6807", "Y">>
NameLineWidth == <<"U7EBF", "U5BBD">>
NameAnchors == <<"U951A", "U70B9", "U6570", "U76EE">>

\* the number of features _parse_point_info and _parse_points read
PointCount(f) == Max(0, PyInt(f.vol0, PointRecordSize) - 1)
\* the number of features _parse_line_info reads
LineCount(f) == Max(0, PyInt(f.vol0, LineRecordSize) - 1)

\* _parse_point_info: the columns ID, coordinate X and coordinate Y (the
\* symbol, text, circle and arc columns are left out); a frame filled cell
\* by cell has dtype object, and dropna(how='all', axis=1) drops every
\* column of a frame without rows
PointInfo(f) ==
    LET n == PointCount(f)
    IN  [n |-> n,
         cols |-> IF n = 0 THEN <<>>
                  ELSE << [name |-> NameID, dtype |-> "object",
                           vals |-> [r \in 1..n |-> Some(r - 1)]],
                          [name |-> NameCoordX, dtype |-> "object",
                           vals |-> [r \in 1..n |-> Some(f.points[r][1])]],
                          [name |-> NameCoordY, dtype |-> "object",
                           vals |-> [r \in 1..n |-> Some(f.points[r][2])]] >>]

\* _parse_line_info: the columns ID, line width and anchor count (the other
\* style columns are left out); a frame built from no rows has dtype object
LineInfo(f) ==
    LET n == LineCount(f)
    IN  [n |-> n,
         cols |-> << [name |-> NameID,
                      dtype |-> IF n = 0 THEN "object" ELSE "int64",
                      vals |-> [r \in 1..n |-> Some(Num(r - 1, 0))]],
                     [name |-> NameLineWidth,
                      dtype |-> IF n = 0 THEN "object" ELSE "float64",
                      vals |-> [r \in 1..n |-> Some(f.lineRecs[r].width)]],
                     [name |-> NameAnchors,
                      dtype |-> IF n = 0 THEN "object" ELSE "int64",
                      vals |-> [r \in 1..n |-> Some(Num(f.lineRecs[r].count, 0))]] >>]

NameFillColor == <<"U586B", "U5145", "U989C", "U8272">>

\* the size of a region record
PolygonRecordSize == 40
\* the number of features _parse_polygon_info reads
PolygonCount(f) == Max(0, PyInt(f.fillVol, PolygonRecordSize) - 1)

\* _parse_polygon_info: the columns ID and fill colour (the pattern columns
\* are left out); the frame is filled cell by cell (dtype object) and keeps
\* its columns when it has no rows
PolygonInfo(f) ==
    LET n == PolygonCount(f)
    IN  [n |-> n,
         cols |-> << [name |-> NameID, dtype |-> "object",
                      vals |-> [r \in 1..n |-> Some(r - 1)]],
                     [name |-> NameFillColor, dtype |-> "object",
                      vals |-> [r \in 1..n |-> Some(f.fills[r])]] >>]

\* pd.concat([a, b], axis=1): the rows of the longer frame, the cells a
\* shorter column lacks are NaN
PadColumn(col, n) ==
    IF Len(col.vals) = n THEN col
    ELSE [name |-> col.name, dtype |-> NullableDtype(col.dtype),
          vals |-> col.vals \o [r \in 1..(n - Len(col.vals)) |-> None]]
Concat(a, b) ==
    LET n == Max(a.n, b.n)
    IN  [n |-> n,
         cols |-> [c \in 1..Len(a.cols) |-> PadColumn(a.cols[c], n)] \o
                  [c \in 1..Len(b.cols) |-> PadColumn(b.cols[c], n)]]

FrameNames(df) == [c \in 1..Len(df.cols) |-> df.cols[c].name]
\* self.data.columns = names
SetColumns(df, names) ==
    [df EXCEPT !.cols = [c \in 1..Len(df.cols) |->
                            [df.cols[c] EXCEPT !.name = names[c]]]]

\* the block of the header table that locates the attribute table
AttributeHeader(st) == IF st = "POLYGON" THEN 9 ELSE 2

\* _parse_feature_data up to the end of _parse_attributes:
\* [data, columns, error]
_parse_attributes(f, st, hdrs) ==
    IF UnpackRaises(hdrs[AttributeHeader(st) + 1])
    THEN [data |-> NoFrame, columns |-> <<>>, error |-> "struct.error"]
    ELSE IF AttributeLoopError(f) # ""
    THEN [data |-> NoFrame, columns |-> <<>>, error |-> AttributeLoopError(f)]
    ELSE IF st \in {"POINT", "LINE"} /\ UnpackRaises(hdrs[1])
    THEN [data |-> NoFrame, columns |-> <<>>, error |-> "struct.error"]
    ELSE IF st = "POINT" /\ PointCount(f) > Len(f.points)
    THEN [data |-> NoFrame, columns |-> <<>>, error |-> "struct.error"]
    ELSE IF st = "LINE" /\ LineCount(f) > Len(f.lineRecs)
    THEN [data |-> NoFrame, columns |-> <<>>, error |-> "struct.error"]
    ELSE IF st = "POLYGON" /\ UnpackRaises(hdrs[9])
    THEN [data |-> NoFrame, columns |-> <<>>, error |-> "struct.error"]
    ELSE IF st = "POLYGON" /\ PolygonCount(f) > Len(f.fills)
    THEN [data |-> NoFrame, columns |-> <<>>, error |-> "struct.error"]
    ELSE LET more_info == IF st = "POINT" THEN PointInfo(f)
                          ELSE IF st = "LINE" THEN LineInfo(f)
                          ELSE PolygonInfo(f)
             df == Concat(AttributeFrame(f), more_info)
         IN  [data |-> SetColumns(df, _deduplicate_columns(FrameNames(df))),
              columns |-> FrameNames(df), error |-> ""]

ParseAttributes ==
    /\ pc = "feature"
    /\ LET r == _parse_attributes(file, shape_type, headers)
       IN  /\ data' = r.data
           /\ columns' = r.columns
           /\ res_head' = FrameNames(r.data)
           /\ fields' = IF UnpackRaises(headers[AttributeHeader(shape_type) + 1])
                        THEN fields ELSE FieldList(file)
           /\ error' = r.error
           /\ pc' = IF r.error = "" THEN "geometry" ELSE "raised"
    /\ UNCHANGED <<batchVars,
                   readerVars, geom, repaired, geodataframe, polyVars, stitchVars, guiVars>>

-----------------------------------------------------------------------------
(* _parse_points and _parse_lines                                          *)

\* the point (x, y) as the file holds it, without the scale
Mut_Point(xy, sc) == [x |-> xy[1], y |-> xy[2], den |-> 1]

\* shapely.geometry.Point(np.array(xy) * scale): the point (x, y) / den
Point(xy, sc) == [x |-> xy[1] * sc.num, y |-> xy[2] * sc.num, den |-> sc.den]

\* _parse_points after _parse_crs: [geom, error]
_parse_points(f, hdrs, sc) ==
    IF UnpackRaises(hdrs[1]) \/ PointCount(f) > Len(f.points)
    THEN [geom |-> <<>>, error |-> "struct.error"]
    ELSE [geom |-> [i \in 1..PointCount(f) |-> Point(f.points[i], sc)],
          error |-> ""]

ParsePoints ==
    /\ pc = "geometry"
    /\ shape_type = "POINT"
    /\ LET c == _parse_crs(file, coordinate_scale, wkid, crs)
           g == _parse_points(file, headers, Val(c.coordinate_scale))
       IN  /\ crs' = c.crs
           /\ coordinate_scale' = c.coordinate_scale
           /\ geom' = IF c.error = "" THEN g.geom ELSE geom
           /\ error' = IF c.error # "" THEN c.error ELSE g.error
           /\ pc' = IF c.error = "" /\ g.error = "" THEN "build" ELSE "raised"
    /\ UNCHANGED <<batchVars,
                   file, io, scale_factor, wkid, shape_type, headers,
                   data, repaired, geodataframe, dedupVars, polyVars, stitchVars, guiVars>>

\* k = vol // 57: the quotient cut towards minus infinity
LineRecords(f) == Max(0, (f.vol0 \div LineRecordSize) - 1)

\* shapely.geometry.LineString(np.array(i).reshape(-1, 2) * scale)
LineString(pts, sc) == [i \in 1..Len(pts) |-> Point(pts[i], sc)]

\* _parse_lines after _parse_crs: [geom, error]; a point array the file
\* holds only in part cannot be unpacked, a line of one point is refused
\* by the geometry library
_parse_lines(f, hdrs, sc) ==
    LET k == LineRecords(f)
    IN  IF UnpackRaises(hdrs[1]) \/ k > Len(f.lineRecs) \/ UnpackRaises(hdrs[2])
        THEN [geom |-> <<>>, error |-> "struct.error"]
        ELSE IF \E i \in 1..k : f.lineRecs[i].count > Len(f.lineRecs[i].pts)
        THEN [geom |-> <<>>, error |-> "struct.error"]
        ELSE IF \E i \in 1..k : f.lineRecs[i].count = 1
        THEN [geom |-> <<>>, error |-> "GEOSException"]
        ELSE [geom |-> [i \in 1..k |->
                  LineString(Prefix(f.lineRecs[i].pts, f.lineRecs[i].count), sc)],
              error |-> ""]

ParseLines ==
    /\ pc = "geometry"
    /\ shape_type = "LINE"
    /\ LET c == _parse_crs(file, coordinate_scale, wkid, crs)
           g == _parse_lines(file, headers, Val(c.coordinate_scale))
       IN  /\ crs' = c.crs
           /\ coordinate_scale' = c.coordinate_scale
           /\ geom' = IF c.error = "" THEN g.geom ELSE geom
           /\ error' = IF c.error # "" THEN c.error ELSE g.error
           /\ pc' = IF c.error = "" /\ g.error = "" THEN "build" ELSE "raised"
    /\ UNCHANGED <<batchVars,
                   file, io, scale_factor, wkid, shape_type, headers,
                   data, repaired, geodataframe, dedupVars, polyVars, stitchVars, guiVars>>

-----------------------------------------------------------------------------
(* _parse_polygons                                                         *)
(*                                                                         *)
(* A region's geometry is [kind, polys, den]: the vertices of the rings    *)
(* are the numerators <<x, y>> of the scaled coordinates, den their common *)
(* denominator.                                                            *)

\* the size of a topology record
TopoRecordSize == 24

\* range(int(vol / 24 - 1)): the number of topology records read
TopoCount(f) == Max(0, PyInt(f.topoVol, TopoRecordSize) - 1)

\* list(line.coords)
Coords(line) == [k \in 1..Len(line) |-> <<line[k].x, line[k].y>>]

\* set(temp[:, 2:4].flatten()) - {0}, in ascending order
RegionIds(temp) ==
    ({temp[r][3] : r \in 1..Len(temp)} \cup {temp[r][4] : r \in 1..Len(temp)})
        \ {0}

\* x = temp[mask]: the indexes (from 1) of the rows that name region i
RECURSIVE RowsOf(_, _, _)
RowsOf(temp, i, r) ==
    IF r > Len(temp) THEN <<>>
    ELSE (IF temp[r][3] = i \/ temp[r][4] = i THEN <<r>> ELSE <<>>)
             \o RowsOf(temp, i, r + 1)

RemoveAt(seq, k) == SubSeq(seq, 1, k - 1) \o SubSeq(seq, k + 1, Len(seq))

\* np.isclose(a, b) with rtol=1e-05 and atol=1e-08 for the numbers a / den
\* and b / den: |a - b| <= atol + rtol * |b|, here times 10^8 * den.  Two
\* numbers more than 21 / den apart are close only when |b| is above 2 * 10^6, beyond the
\* coordinates of the model.
IsClose(a, b, den) ==
    LET d == IF a >= b THEN a - b ELSE b - a
    IN  d <= 21 /\ 100000000 * d <= den + 1000 * (IF b >= 0 THEN b ELSE -b)

\* the points taken for equal: exact equality instead of np.allclose
Mut_AllClose(p, q, den) == p = q

\* np.allclose(p, q) for the points p / den and q / den
AllClose(p, q, den) == IsClose(p[1], q[1], den) /\ IsClose(p[2], q[2], den)

\* one of the four tests of the for loop joins seg to ring
Joins(ring, seg, den) ==
    \/ AllClose(Last(ring), seg[1], den) \/ AllClose(Last(ring), Last(seg), den)
    \/ AllClose(ring[1], Last(seg), den) \/ AllClose(ring[1], seg[1], den)

Mut_Join(ring, seg, den) == ring

\* the ring after the first of the four tests that holds
Join(ring, seg, den) ==
    IF AllClose(Last(ring), seg[1], den) THEN ring \o Tail(seg)
    ELSE IF AllClose(Last(ring), Last(seg), den) THEN ring \o Reverse(Front(seg))
    ELSE IF AllClose(ring[1], Last(seg), den) THEN Front(seg) \o ring
    ELSE Front(Reverse(seg)) \o ring

\* the first segment of m at which the for loop stops: one that joins the
\* ring or one that is empty (0 when there is none)
MinOrZero(S) == IF S = {} THEN 0 ELSE SetMin(S)
FirstHit(ring, m, den) ==
    MinOrZero({k \in 1..Len(m) : m[k] = <<>> \/ Joins(ring, m[k], den)})

\* `while changed and m`: [ring, m, error]; ring[-1] or seg[0] of an empty
\* list raises IndexError
RECURSIVE Grow(_, _, _)

\* a pass of the for loop that stopped at the segment idx of m
GrowAt(ring, m, idx, den) ==
    IF idx = 0 THEN [ring |-> ring, m |-> m, error |-> ""]
    ELSE IF m[idx] = <<>> THEN [ring |-> ring, m |-> m, error |-> "IndexError"]
    ELSE Grow(Join(ring, m[idx], den), RemoveAt(m, idx), den)

Grow(ring, m, den) ==
    IF m = <<>> THEN [ring |-> ring, m |-> m, error |-> ""]
    ELSE IF ring = <<>> THEN [ring |-> ring, m |-> m, error |-> "IndexError"]
    ELSE GrowAt(ring, m, FirstHit(ring, m, den), den)

\* `while m`: [lines, error]
RECURSIVE Stitch(_, _, _)

\* lines.append(ring) for the ring g that was grown, and the next pass
StitchOn(g, ls, den) ==
    IF g.error # "" THEN [lines |-> ls, error |-> g.error]
    ELSE Stitch(g.m, Append(ls, g.ring), den)

Stitch(m, ls, den) ==
    IF m = <<>> THEN [lines |-> ls, error |-> ""]
    ELSE StitchOn(Grow(Head(m), Tail(m), den), ls, den)

\* [i for i in lines if len(i) > 2]
RECURSIVE LongRings(_)
LongRings(ls) ==
    IF ls = <<>> THEN <<>>
    ELSE (IF Len(Head(ls)) > 2 THEN <<Head(ls)>> ELSE <<>>) \o LongRings(Tail(ls))

\* shapely.geometry.Polygon(poly) refuses a ring of 1 or 2 coordinates
PolygonRaises(poly) == Len(poly) \in {1, 2}

\* MultiPolygon(get_multipolygons(lines)) of the chains st that were
\* stitched
MultiPolygonOf(st, den) ==
    IF st.error # "" THEN [geom |-> <<>>, error |-> st.error]
    ELSE LET mp == get_multipolygons(LongRings(st.lines))
         IN  IF mp.error # "" THEN [geom |-> <<>>, error |-> mp.error]
             ELSE [geom |-> <<[kind |-> "MultiPolygon", polys |-> mp.polys,
                               den |-> den]>>,
                   error |-> ""]

\* the body of the loop over the regions for region i: [geom, error]
RegionGeometry(temp, geom_lines, i, den) ==
    LET x == RowsOf(temp, i, 1)
    IN  IF \E k \in 1..Len(x) : x[k] > Len(geom_lines)
        THEN [geom |-> <<>>, error |-> "IndexError"]
        ELSE IF Len(x) = 1
        THEN LET poly == Coords(geom_lines[x[1]])
             IN  IF PolygonRaises(poly)
                 THEN [geom |-> <<>>, error |-> "ValueError"]
                 ELSE [geom |-> <<[kind |-> "Polygon",
                                   polys |-> <<Polygon(poly, <<>>)>>,
                                   den |-> den]>>,
                       error |-> ""]
        ELSE MultiPolygonOf(
                 Stitch([k \in 1..Len(x) |-> Coords(geom_lines[x[k]])], <<>>, den),
                 den)

\* the loop over the regions, ids the regions still to do: [geom, error]
RECURSIVE Regions(_, _, _, _, _)
Regions(temp, geom_lines, ids, den, acc) ==
    IF ids = {} THEN [geom |-> acc, error |-> ""]
    ELSE LET i == SetMin(ids)
             g == RegionGeometry(temp, geom_lines, i, den)
         IN  IF g.error # "" THEN [geom |-> acc, error |-> g.error]
             ELSE Regions(temp, geom_lines, ids \ {i}, den, acc \o g.geom)

\* a struct.error of the model is the one whose text has 'unpack requires
\* a buffer of': except struct.error raises Exception with the advice to
\* check that MapGIS can save the file; any other exception passes
Mut_Reraise(e) == e
Reraise(e) == IF e = "struct.error" THEN "Exception" ELSE e

\* the try block of _parse_polygons after _parse_crs: [geom, error]
PolygonsTry(f, hdrs, sc) ==
    LET ls == _parse_lines(f, hdrs, sc)
        temp == SubSeq(f.topo, 1, TopoCount(f))
    IN  IF ls.error # "" THEN ls
        ELSE IF UnpackRaises(hdrs[4]) \/ TopoCount(f) > Len(f.topo)
        THEN [geom |-> <<>>, error |-> "struct.error"]
        ELSE IF temp = <<>>
        THEN [geom |-> <<>>, error |-> "ValueError"]
        ELSE Regions(temp, ls.geom, RegionIds(temp), sc.den, <<>>)

\* _parse_polygons after _parse_crs: [geom, error]
_parse_polygons(f, hdrs, sc) ==
    LET r == PolygonsTry(f, hdrs, sc)
    IN  [geom |-> r.geom, error |-> Reraise(r.error)]

ParsePolygons ==
    /\ pc = "geometry"
    /\ shape_type = "POLYGON"
    /\ LET c == _parse_crs(file, coordinate_scale, wkid, crs)
           g == _parse_polygons(file, headers, Val(c.coordinate_scale))
       IN  /\ crs' = c.crs
           /\ coordinate_scale' = c.coordinate_scale
           /\ geom' = IF c.error = "" /\ g.error = "" THEN g.geom ELSE geom
           /\ error' = IF c.error # "" THEN Reraise(c.error) ELSE g.error
           /\ pc' = IF c.error = "" /\ g.error = "" THEN "build" ELSE "raised"
    /\ UNCHANGED <<batchVars, file, io, scale_factor, wkid, shape_type,
                   headers, data, repaired, geodataframe, dedupVars, polyVars, stitchVars, guiVars>>

-----------------------------------------------------------------------------
(* Values of the variables a specification does not use *)


ReaderIdle ==
    /\ file = NoFile /\ io = 0 /\ scale_factor = None /\ wkid = None
    /\ shape_type = "" /\ headers = <<>> /\ coordinate_scale = None
    /\ crs = NoCrs
TableIdle ==
    /\ data = NoFrame /\ geom = <<>> /\ repaired = FALSE
    /\ geodataframe = NoGdf
DedupIdle == columns = <<>> /\ res_head = <<>> /\ fields = <<>>
PolyIdle == lines = <<>> /\ polygons = <<>>
GuiIdle ==
    /\ selected_files = 0 /\ output_dir = FALSE /\ convert_button = TRUE
    /\ infobar = "" /\ threads = <<>> /\ events = 0

StitchIdle == st_in = <<>> /\ st_m = <<>> /\ st_ring = <<>> /\ st_lines = <<>>
BatchIdle ==
    /\ file_paths = <<>> /\ current = 0 /\ log = <<>> /\ handles = <<>>
    /\ reader = 0 /\ signals = <<>>

-----------------------------------------------------------------------------
(* Specification of _deduplicate_columns on its own *)

InitDedup ==
    /\ pc = "dedup_call" /\ error = ""
    /\ columns \in SeqsUpTo(DedupNames, MaxCols)
    /\ res_head = <<>> /\ fields = <<>>
    /\ ReaderIdle /\ TableIdle /\ PolyIdle /\ StitchIdle /\ GuiIdle /\ BatchIdle

DeduplicateColumns ==
    /\ pc = "dedup_call"
    /\ res_head' = _deduplicate_columns(columns)
    /\ pc' = "dedup_done"
    /\ UNCHANGED <<batchVars, error, columns, fields, readerVars, tableVars,
                   polyVars, stitchVars, guiVars>>

NextDedup == DeduplicateColumns

SpecDedup == InitDedup /\ [][NextDedup]_vars

-----------------------------------------------------------------------------
(* Specification of get_multipolygons on its own *)

InitMultipolygons ==
    /\ pc = "gm_call" /\ error = ""
    /\ lines \in SeqsUpTo(Rings, MaxRings)
    /\ polygons = <<>>
    /\ ReaderIdle /\ TableIdle /\ DedupIdle /\ BatchIdle /\ StitchIdle /\ GuiIdle

GetMultipolygons ==
    /\ pc = "gm_call"
    /\ LET r == get_multipolygons(lines)
       IN  /\ polygons' = r.polys
           /\ error' = r.error
           /\ pc' = IF r.error = "" THEN "gm_done" ELSE "gm_raised"
    /\ UNCHANGED <<batchVars, lines, readerVars, tableVars, dedupVars,
                   stitchVars, guiVars>>

NextMultipolygons == GetMultipolygons

SpecMultipolygons == InitMultipolygons /\ [][NextMultipolygons]_vars

\* Bound: the number of rings of a list of squares that lie in each other
MaxNested == 4

\* the square (0,3), two squares in it that overlap, and the square that
\* lies in both
NestedRings == {Square(0, 3), Square(0, 2), Square(1, 3), Square(1, 2)}

\* get_multipolygons on the lists of these squares
InitNesting ==
    /\ pc = "gm_call" /\ error = ""
    /\ lines \in SeqsUpTo(NestedRings, MaxNested)
    /\ polygons = <<>>
    /\ ReaderIdle /\ TableIdle /\ DedupIdle /\ BatchIdle /\ StitchIdle /\ GuiIdle

NextNesting == GetMultipolygons

SpecNesting == InitNesting /\ [][NextNesting]_vars

-----------------------------------------------------------------------------
(* Specification of the stitching of the segments of one region in         *)
(* _parse_polygons, a step of the loops at a time.  The variables st_m,    *)
(* st_ring and st_lines are m, ring and lines of the source; the           *)
(* coordinates are whole numbers (den = 1).                                *)

\* Bound: the number of segments of the region
MaxSegments == 3

\* two points that np.allclose takes for equal
FarA == <<100000, 0>>
FarB == <<100001, 0>>

\* segments along the square (0,0)-(3,3) in both directions, two segments
\* whose ends are close and not equal, and a segment without points
StitchSegments ==
    {<< <<0, 0>>, <<3, 0>> >>, << <<3, 0>>, <<3, 3>> >>, << <<3, 3>>, <<3, 0>> >>,
     << <<0, 3>>, <<0, 0>> >>, << <<0, 0>>, <<0, 3>> >>,
     << <<0, 0>>, FarA >>, << FarB, <<3, 3>> >>,
     <<>>}

InitStitch ==
    /\ pc = "st_pop" /\ error = ""
    /\ st_in \in SeqsUpTo(StitchSegments, MaxSegments)
    /\ st_m = st_in /\ st_ring = <<>> /\ st_lines = <<>>
    /\ ReaderIdle /\ TableIdle /\ DedupIdle /\ PolyIdle /\ BatchIdle /\ GuiIdle

\* while m: ring = m.pop(0); changed = True
StitchPop ==
    /\ pc = "st_pop" /\ st_m # <<>>
    /\ st_ring' = Head(st_m)
    /\ st_m' = Tail(st_m)
    /\ pc' = "st_grow"
    /\ UNCHANGED <<error, st_in, st_lines, batchVars, readerVars, tableVars,
                   dedupVars, polyVars, guiVars>>

\* a pass of the for loop that finds a segment to join: the first of the
\* four tests that holds extends the ring, m.pop(idx), changed = True
StitchJoin ==
    /\ pc = "st_grow" /\ st_m # <<>> /\ st_ring # <<>>
    /\ LET idx == FirstHit(st_ring, st_m, 1)
       IN  /\ idx # 0 /\ st_m[idx] # <<>>
           /\ st_ring' = Join(st_ring, st_m[idx], 1)
           /\ st_m' = RemoveAt(st_m, idx)
    /\ UNCHANGED <<pc, error, st_in, st_lines, batchVars, readerVars, tableVars,
                   dedupVars, polyVars, guiVars>>

\* a pass of the for loop in which ring[-1] or seg[0] is taken of an empty
\* list: IndexError
StitchRaise ==
    /\ pc = "st_grow" /\ st_m # <<>>
    /\ \/ st_ring = <<>>
       \/ /\ st_ring # <<>>
          /\ LET idx == FirstHit(st_ring, st_m, 1)
             IN  idx # 0 /\ st_m[idx] = <<>>
    /\ error' = "IndexError"
    /\ pc' = "st_raised"
    /\ UNCHANGED <<stitchVars, batchVars, readerVars, tableVars, dedupVars,
                   polyVars, guiVars>>

\* m is empty or a pass of the for loop joined nothing: lines.append(ring)
StitchClose ==
    /\ pc = "st_grow"
    /\ \/ st_m = <<>>
       \/ st_ring # <<>> /\ FirstHit(st_ring, st_m, 1) = 0
    /\ st_lines' = Append(st_lines, st_ring)
    /\ pc' = "st_pop"
    /\ UNCHANGED <<error, st_in, st_m, st_ring, batchVars, readerVars,
                   tableVars, dedupVars, polyVars, guiVars>>

\* m is empty: lines = [i for i in lines if len(i) > 2]
StitchFilter ==
    /\ pc = "st_pop" /\ st_m = <<>>
    /\ st_lines' = LongRings(st_lines)
    /\ pc' = "st_done"
    /\ UNCHANGED <<error, st_in, st_m, st_ring, batchVars, readerVars,
                   tableVars, dedupVars, polyVars, guiVars>>

NextStitch ==
    \/ StitchPop
    \/ StitchJoin
    \/ StitchRaise
    \/ StitchClose
    \/ StitchFilter

SpecStitch == InitStitch /\ [][NextStitch]_vars

\* the loops run on: a step that can be taken is taken
SpecStitchFair == SpecStitch /\ WF_vars(NextStitch)

-----------------------------------------------------------------------------
(* Specification of to_file on a constructed reader with any table *)

\* Bound: the number of rows of the table given to to_file
MaxRows == 4

FloatCells ==
    {None, Some(Num(5, 0)), Some(Num(1, 12)), Some(Num(-1, 12)),
     Some(Num(2, 12)), Some(Num(2, 13)), Some(Num(-3, 13))}

\* A-1, the mapped name "mianji" (area) and the unmapped name "mingcheng"
ToFileNames ==
    {NameA1, <<"U9762", "U79EF">>, <<"U540D", "U79F0">>}

\* a table with a float64 column of any cells and a second column that is
\* int64 (no nulls, 4-byte values) or object (all null)
ToFileFrame(nm, dt, v) ==
    [n |-> Len(v),
     cols |-> << [name |-> nm, dtype |-> "float64", vals |-> v],
                 [name |-> <<"A", "r", "e", "a">>, dtype |-> dt,
                  vals |-> [r \in 1..Len(v) |->
                      IF dt = "object" THEN None ELSE Some(Num(2, 9))]] >>,
     geocol |-> GeometryName,
     geometry |-> [r \in 1..Len(v) |-> <<r, r>>],
     crs |-> [kind |-> "empty"]]

ToFileFrames ==
    {ToFileFrame(nm, dt, v) :
        nm \in ToFileNames, dt \in {"int64", "object"},
        v \in SeqsUpTo(FloatCells, MaxRows)}

InitToFile ==
    /\ pc = "constructed" /\ error = ""
    /\ geodataframe \in ToFileFrames
    /\ data = NoFrame /\ geom = <<>> /\ repaired = FALSE
    /\ ReaderIdle /\ DedupIdle /\ PolyIdle /\ StitchIdle /\ GuiIdle /\ BatchIdle

ToFile ==
    /\ pc = "constructed"
    /\ \E ext \in {"shp", "gpkg"} : geodataframe' = to_file(geodataframe, ext)
    /\ pc' = "written"
    /\ UNCHANGED <<batchVars,
                   error, data, geom, repaired, readerVars, dedupVars, polyVars, stitchVars, guiVars>>

NextToFile == ToFile

SpecToFile == InitToFile /\ [][NextToFile]_vars

-----------------------------------------------------------------------------
(* Specification of _sanitize_field_names on a frame with any columns *)

\* Bound: the number of attribute columns of the frame
MaxSanitized == 3

\* names of 12 and of 10 characters, a name that is the cut name with _1,
\* the mapped names "mianji" (area) and ID-1, the identifiers Area and
\* ID_1 as names, the unmapped name "mingcheng", the name of the geometry
\* column and the empty name
SanitizeNames ==
    {<<"a", "b", "c", "d", "e", "f", "g", "h", "i", "j", "k", "l">>,
     <<"a", "b", "c", "d", "e", "f", "g", "h", "i", "j">>,
     <<"a", "b", "c", "d", "e", "f", "g", "h", "_", "1">>,
     <<"U9762", "U79EF">>, <<"I", "D", "-", "1">>,
     <<"A", "r", "e", "a">>, <<"I", "D", "_", "1">>,
     <<"U540D", "U79F0">>, GeometryName, <<>>}

SanitizeFrame(names) ==
    [n |-> 0,
     cols |-> [k \in 1..Len(names) |->
                  [name |-> names[k], dtype |-> "object", vals |-> <<>>]],
     geocol |-> GeometryName,
     geometry |-> <<>>,
     crs |-> [kind |-> "empty"]]

InitSanitize ==
    /\ pc = "constructed" /\ error = ""
    /\ \E names \in SeqsUpTo(SanitizeNames, MaxSanitized) :
          geodataframe = SanitizeFrame(names)
    /\ data = NoFrame /\ geom = <<>> /\ repaired = FALSE
    /\ ReaderIdle /\ DedupIdle /\ PolyIdle /\ StitchIdle /\ GuiIdle /\ BatchIdle

SanitizeFieldNames ==
    /\ pc = "constructed"
    /\ geodataframe' = _sanitize_field_names(geodataframe)
    /\ pc' = "sanitized"
    /\ UNCHANGED <<batchVars, error, data, geom, repaired, readerVars,
                   dedupVars, polyVars, stitchVars, guiVars>>

NextSanitize == SanitizeFieldNames

SpecSanitize == InitSanitize /\ [][NextSanitize]_vars

-----------------------------------------------------------------------------
(* Specification of _build_geodataframe on any attribute table, geometry   *)
(* list and coordinate system                                              *)

\* Bound: the number of attribute rows and of geometries given to
\* _build_geodataframe
MaxTableRows == 10

\* an attribute table of n rows: the int64 column ID with values 0..n-1,
\* each value v written v * 10^0
TableOfRows(n) ==
    [n |-> n,
     cols |-> << [name |-> NameID, dtype |-> "int64",
                  vals |-> [r \in 1..n |-> Some(Num(r - 1, 0))]] >>]
GeometriesOf(n) == [r \in 1..n |-> <<r, r>>]

BuildCrs ==
    {[kind |-> "empty"], [kind |-> "none"], NoCrs,
     [kind |-> "longlat", ellps |-> 7], [kind |-> "epsg", code |-> 4326]}

InitBuild ==
    /\ pc = "build" /\ error = ""
    /\ \E n \in 0..MaxTableRows : data = TableOfRows(n)
    /\ \E n \in 0..MaxTableRows : geom = GeometriesOf(n)
    /\ repaired = FALSE
    /\ geodataframe = NoGdf
    /\ file = NoFile /\ io = 0 /\ scale_factor = None /\ wkid = None
    /\ shape_type = "" /\ headers = <<>> /\ coordinate_scale = None
    /\ crs \in BuildCrs
    /\ DedupIdle /\ PolyIdle /\ StitchIdle /\ GuiIdle /\ BatchIdle

NextBuild == BuildGeoDataFrame

SpecBuild == InitBuild /\ [][NextBuild]_vars

-----------------------------------------------------------------------------
(* Specification of the reader: MapGisReader(filepath, scale_factor, wkid) *)
(* on a point, line or polygon file, then to_file.  The constructor runs   *)
(* _detect_shape_type, _read_headers, _parse_feature_data (the attribute   *)
(* table, then the coordinate system and the geometry) and                 *)
(* _build_geodataframe; an exception ends it.                              *)

\* Bounds: the number of point records and of line records a file holds
\* after the skipped first one
MaxPoints == 3
MaxLines == 2

Tags == {TagPoint, TagPolygon, TagLine, TagOther, TagNotGbk, TagShort}

\* an attribute table of int fields, 4 bytes each, and its rows: the
\* value of every field of row r is (r - 1) % 10
IntFields(names) ==
    [c \in 1..Len(names) |-> [name |-> names[c], type |-> 3, offset |-> 4 * (c - 1)]]
IntRows(n, count) ==
    [r \in 1..count |-> [k \in 1..(4 * n) |-> IF k % 4 = 1 THEN (r - 1) % 10 ELSE 0]]

DefaultFile ==
    [tag |-> TagPoint, preamble |-> TRUE, hdrBytes |-> HeaderCount * HeaderSize,
     vol0 |-> 3 * PointRecordSize,
     proj_type |-> 0, ellipsoid |-> 7, scale |-> Scale(2, 1), cl |-> 1170000,
     fields |-> IntFields(<<NameID>>), record_length |-> 4,
     record_count |-> 3, rows |-> IntRows(1, 2),
     points |-> << <<1, 2>>, <<3, 4>> >>,
     lineRecs |-> <<>>,
     topoVol |-> 0, topo |-> <<>>, fillVol |-> 0, fills |-> <<>>]

LineRec(count, width) ==
    [count |-> count, pts |-> << <<0, 0>>, <<1, 2>> >>, width |-> width]

DefaultLineFile ==
    [DefaultFile EXCEPT !.tag = TagLine, !.vol0 = 2 * LineRecordSize,
                        !.record_count = 2, !.rows = IntRows(1, 1),
                        !.points = <<>>,
                        !.lineRecs = <<LineRec(2, Num(1, 0))>>]

\* a segment of a polygon file: a closed square, the lower right and the
\* upper left half of its boundary
Seg(pts) == [count |-> Len(pts), pts |-> pts, width |-> Num(1, 0)]
HalfA(lo, hi) == << <<lo, lo>>, <<hi, lo>>, <<hi, hi>> >>
HalfB(lo, hi) == << <<hi, hi>>, <<lo, hi>>, <<lo, lo>> >>

\* a polygon file of one region, a closed square
DefaultPolygonFile ==
    [DefaultFile EXCEPT !.tag = TagPolygon, !.record_count = 2, !.rows = IntRows(1, 1),
                        !.points = <<>>,
                        !.lineRecs = <<Seg(Square(0, 3))>>,
                        !.vol0 = 2 * LineRecordSize,
                        !.topo = << <<1, 1, 1, 0>> >>,
                        !.topoVol = 2 * TopoRecordSize,
                        !.fills = <<5>>, !.fillVol = 2 * PolygonRecordSize]

FileOfTag(tag) == IF tag = TagLine THEN DefaultLineFile
                  ELSE IF tag = TagPolygon THEN DefaultPolygonFile
                  ELSE [DefaultFile EXCEPT !.tag = tag]

\* every tag, with and without the bytes 8..15, with a header table of 0 to
\* 100 bytes
OpenFiles ==
    {[FileOfTag(tag) EXCEPT !.preamble = pre, !.hdrBytes = hb] :
        tag \in Tags, pre \in BOOLEAN, hb \in 0..(HeaderCount * HeaderSize)}

ProjTypes == {0, 1, 2, 3, 5}
Ellipsoids == {0, 3, 7, 116}
FileScales == {Scale(0, 1), Scale(2, 1), Scale(1000, 1)}
CentralMeridians == {0, 1170000}

\* point files with every projection type, ellipsoid, scale and meridian
CrsFiles ==
    {[DefaultFile EXCEPT !.proj_type = pt, !.ellipsoid = el, !.scale = sc,
                         !.cl = cl] :
        pt \in ProjTypes, el \in Ellipsoids, sc \in FileScales,
        cl \in CentralMeridians}

PointCoords == {<<1, 2>>, <<3, 4>>}
PointVolumes ==
    {-PointRecordSize, 0, PointRecordSize - 1, PointRecordSize + 7} \cup
    {k * PointRecordSize : k \in 1..(MaxPoints + 1)}

\* point files with every volume, every list of point records and every
\* record count, with and without a known ellipsoid
PointFiles ==
    {[DefaultFile EXCEPT !.vol0 = v, !.points = ps, !.record_count = rc,
                         !.rows = IntRows(Len(fs), MaxPoints + 1),
                         !.ellipsoid = el,
                         !.fields = IntFields(fs),
                         !.record_length = 4 * Len(fs)] :
        v \in PointVolumes, ps \in SeqsUpTo(PointCoords, MaxPoints),
        rc \in 0..(MaxPoints + 2), el \in {0, 7},
        fs \in {<<NameID>>, <<NameA, NameA, NameA1>>}}

LineWidths == {Num(1, 0), Num(2, 13)}

\* line files with every list of line records
LineFiles ==
    {[DefaultLineFile EXCEPT !.vol0 = k * LineRecordSize, !.lineRecs = rs,
                             !.record_count = rc] :
        k \in 0..(MaxLines + 1), rc \in 1..2,
        rs \in SeqsUpTo({LineRec(c, w) : c \in 0..3, w \in LineWidths}, MaxLines)}

\* segments and topology records: one region of one closed segment; one
\* region of two halves; a region with a hole that is a region itself; two
\* regions side by side; a segment of two points; a segment the file holds
\* in part; a topology record without its segment
Layouts ==
    {[lineRecs |-> <<Seg(Square(0, 3))>>, topo |-> << <<1, 1, 1, 0>> >>],
     [lineRecs |-> <<Seg(HalfA(0, 3)), Seg(HalfB(0, 3))>>,
      topo |-> << <<1, 2, 1, 0>>, <<2, 1, 1, 0>> >>],
     [lineRecs |-> <<Seg(Square(0, 3)), Seg(Square(1, 2))>>,
      topo |-> << <<1, 1, 1, 0>>, <<2, 2, 2, 1>> >>],
     [lineRecs |-> <<Seg(Square(0, 1)), Seg(Square(2, 3))>>,
      topo |-> << <<1, 1, 1, 0>>, <<2, 2, 0, 2>> >>],
     [lineRecs |-> <<LineRec(2, Num(1, 0))>>, topo |-> << <<1, 2, 1, 0>> >>],
     [lineRecs |-> <<LineRec(3, Num(1, 0))>>, topo |-> << <<1, 2, 1, 0>> >>],
     [lineRecs |-> <<Seg(Square(0, 3))>>,
      topo |-> << <<1, 1, 1, 0>>, <<2, 2, 1, 0>> >>]}

\* the topology records the file holds: all of them or one less
TopoHeld(topo) == {topo, Front(topo)}

\* polygon files with every layout, with a complete and a truncated
\* topology section and region table
PolygonFile(lay, tp, extra, fl, el, hb) ==
    [DefaultPolygonFile EXCEPT
          !.lineRecs = lay.lineRecs,
          !.vol0 = (Len(lay.lineRecs) + 1) * LineRecordSize,
          !.topo = tp,
          !.topoVol = (Len(lay.topo) + 1) * TopoRecordSize + extra,
          !.fills = fl,
          !.fillVol = 2 * PolygonRecordSize,
          !.ellipsoid = el,
          !.hdrBytes = hb]
PolygonFiles ==
    UNION {{PolygonFile(lay, tp, extra, fl, el, hb) :
                tp \in TopoHeld(lay.topo), extra \in {-TopoRecordSize, 0, 7},
                fl \in {<<>>, <<5>>}, el \in {3, 7}, hb \in {35, 100}} :
           lay \in Layouts}

\* 4 bytes of a record: texts (one with the invalid byte FF, one with the
\* lead byte 81 without a trail byte, one with a two-byte character) and
\* the integers 5 and -1
Chunks ==
    {<<65, 66, 0, 0>>, <<65, 255, 66, 0>>, <<65, 129, 0, 0>>, <<181, 227, 67, 0>>,
     <<5, 0, 0, 0>>, <<255, 255, 255, 255>>}

NameS == <<"S">>
NameN == <<"N">>
NameX == <<"X">>

Field(name, type, offset) == [name |-> name, type |-> type, offset |-> offset]

\* descriptor tables [fields, record_length]: a text and an integer; an
\* integer after a field of an unknown type; a text, a field of an unknown
\* type and an integer; two integers around a field of an unknown type; an
\* integer before a field of an unknown type; a text alone
DescriptorTables ==
    {[fields |-> <<Field(NameS, 0, 0), Field(NameN, 3, 4)>>, record_length |-> 8],
     [fields |-> <<Field(NameX, 9, 0), Field(NameN, 3, 4)>>, record_length |-> 8],
     [fields |-> <<Field(NameS, 0, 0), Field(NameX, 255, 4), Field(NameN, 3, 8)>>,
      record_length |-> 12],
     [fields |-> <<Field(NameN, 3, 0), Field(NameX, 9, 4), Field(NameA, 3, 8)>>,
      record_length |-> 12],
     [fields |-> <<Field(NameN, 3, 0), Field(NameX, 8, 4)>>, record_length |-> 8],
     [fields |-> <<Field(NameS, 0, 0)>>, record_length |-> 8]}

\* point files with every descriptor table and two records: the first of
\* any three chunks, the second a text and two integers
AttributeFiles ==
    {[DefaultFile EXCEPT !.fields = dt.fields,
                         !.record_length = dt.record_length,
                         !.rows = <<PySlice(c1 \o c2 \o c3, 0, dt.record_length),
                                    PySlice(<<66, 0, 0, 0, 5, 0, 0, 0, 5, 0, 0, 0>>,
                                            0, dt.record_length)>>] :
        dt \in DescriptorTables, c1 \in Chunks, c2 \in Chunks, c3 \in Chunks}

ScaleFactors == {None, Some(Scale(2, 1))}
Wkids == {None, Some(0), Some(4326), Some(4490), Some(99999)}

\* point files with one text field in records of 8 bytes that announce 0
\* to 4 records and hold the header record and two more
ShortAttributeFiles ==
    {[DefaultFile EXCEPT !.fields = <<Field(NameS, 0, 0)>>,
                         !.record_length = 8,
                         !.record_count = rc,
                         !.rows = <<c1 \o <<66, 0, 0, 0>>, <<67, 0, 0, 0>> \o c1>>] :
        rc \in 0..4, c1 \in Chunks}

Constructions ==
    {[file |-> f, scale_factor |-> None, wkid |-> None] :
        f \in OpenFiles \cup PointFiles \cup LineFiles \cup PolygonFiles
                  \cup AttributeFiles \cup ShortAttributeFiles}
    \cup
    {[file |-> f, scale_factor |-> sf, wkid |-> w] :
        f \in CrsFiles, sf \in ScaleFactors, w \in Wkids}
    \cup
    {[file |-> f, scale_factor |-> Some(Scale(2, 1)), wkid |-> None] :
        f \in PointFiles}

\* __init__ up to open(filepath, 'rb')
Init ==
    /\ pc = "detect" /\ error = ""
    /\ \E c \in Constructions :
          /\ file = c.file
          /\ scale_factor = c.scale_factor
          /\ wkid = c.wkid
          /\ coordinate_scale = c.scale_factor
    /\ io = 0 /\ shape_type = "" /\ headers = <<>> /\ crs = NoCrs
    /\ TableIdle /\ DedupIdle /\ PolyIdle /\ StitchIdle /\ GuiIdle /\ BatchIdle

Next ==
    \/ DetectShapeType
    \/ ReadHeaders
    \/ ParseAttributes
    \/ ParsePoints
    \/ ParseLines
    \/ ParsePolygons
    \/ BuildGeoDataFrame
    \/ ToFile

Spec == Init /\ [][Next]_vars

-----------------------------------------------------------------------------
(* Specification of the batch: ConvertThread.run over file_paths.          *)
(*                                                                         *)
(* Each turn of the loop constructs a reader (the constructor's steps are   *)
(* the actions of the reader above), emits the advisory line, writes the    *)
(* table and emits the completion line; `except Exception` emits the        *)
(* failure line.  The key words use_scale/scale_text and use_proj/           *)
(* projection_text are the same for every file: scale_factor and wkid.      *)
(*                                                                         *)
(* A reader is finalised (__del__: self.file.close()) at the step that      *)
(* drops the last reference to it: the rebinding of the local `reader`,     *)
(* the end of the except block for a reader whose constructor raised (the   *)
(* exception's traceback held it), the return of run.                       *)

\* Bound: the number of files of a batch
MaxBatch == 2

\* a point file whose attribute table has one row more than it has points
MismatchFile(el) ==
    [DefaultFile EXCEPT !.record_count = 4, !.rows = IntRows(1, 3),
                        !.ellipsoid = el]

BatchFiles ==
    {DefaultFile, DefaultLineFile, FileOfTag(TagOther),
     [DefaultFile EXCEPT !.ellipsoid = 0],
     [DefaultFile EXCEPT !.ellipsoid = 3],
     MismatchFile(0), MismatchFile(7),
     DefaultPolygonFile}

\* self.progress_signal.emit(current, total) and self.finished_signal.emit()
progress_signal(cur, total) == [signal |-> "progress", args |-> <<cur, total>>]
finished_signal == [signal |-> "finished", args |-> <<>>]

\* MapGisReader.__del__: self.file.close() on the handle h (0: no reader)
Mut_Del(hs, h) == hs
Del(hs, h) == IF h = 0 THEN hs ELSE [hs EXCEPT ![h] = FALSE]

InitBatch ==
    /\ pc = "next" /\ error = ""
    /\ file_paths \in SeqsUpTo(BatchFiles, MaxBatch)
    /\ scale_factor \in {None, Some(Scale(2, 1))}
    /\ wkid \in {None, Some(4326)}
    /\ current = 0 /\ log = <<>> /\ handles = <<>> /\ reader = 0
    /\ signals = <<>>
    /\ file = NoFile /\ io = 0 /\ shape_type = "" /\ headers = <<>>
    /\ coordinate_scale = None /\ crs = NoCrs
    /\ TableIdle /\ DedupIdle /\ PolyIdle /\ StitchIdle /\ GuiIdle

\* reader = pymapgis.MapGisReader(mapgis_file, **kwargs), up to
\* self.file = open(filepath, 'rb')
RunConstruct ==
    /\ pc = "next" /\ current < Len(file_paths)
    /\ file' = file_paths[current + 1]
    /\ coordinate_scale' = scale_factor
    /\ handles' = Append(handles, TRUE)
    /\ io' = 0 /\ shape_type' = "" /\ headers' = <<>> /\ crs' = NoCrs
    /\ data' = NoFrame /\ geom' = <<>> /\ repaired' = FALSE
    /\ geodataframe' = NoGdf
    /\ error' = "" /\ pc' = "detect"
    /\ UNCHANGED <<scale_factor, wkid, file_paths, current, log, reader,
                   signals, dedupVars, polyVars, stitchVars, guiVars>>

\* the advisory line of a constructed reader
Advisory(c, rep) ==
    IF c.kind = "empty" THEN "crs_empty" ELSE IF rep THEN "repaired"
    ELSE "success"

\* the constructor has returned: `reader` is bound to the new reader (the
\* reader it was bound to is finalised) and the advisory line is emitted
RunAdvise ==
    /\ pc = "constructed"
    /\ reader' = Len(handles)
    /\ handles' = Del(handles, reader)
    /\ log' = Append(log, [file |-> current + 1, line |-> Advisory(crs, repaired)])
    /\ pc' = "save"
    /\ UNCHANGED <<error, file_paths, current, signals, readerVars, tableVars,
                   dedupVars, polyVars, stitchVars, guiVars>>

\* reader.to_file(new_file_path), the path ending in .shp; the write of
\* the file by the library succeeds or raises
RunToFile ==
    /\ pc = "save"
    /\ geodataframe' = to_file(geodataframe, "shp")
    /\ \E ok \in BOOLEAN :
          /\ error' = IF ok THEN "" ELSE "OSError"
          /\ pc' = IF ok THEN "saved" ELSE "raised"
    /\ UNCHANGED <<batchVars, data, geom, repaired, readerVars, dedupVars,
                   polyVars, stitchVars, guiVars>>

\* the completion line, current += 1
RunComplete ==
    /\ pc = "saved"
    /\ log' = Append(log, [file |-> current + 1, line |-> "complete"])
    /\ current' = current + 1
    /\ signals' = Append(signals, progress_signal(current + 1, Len(file_paths)))
    /\ pc' = "next"
    /\ UNCHANGED <<error, file_paths, handles, reader, readerVars, tableVars,
                   dedupVars, polyVars, stitchVars, guiVars>>

\* the failure line of `except Exception as e`
FailureLine(e, f) ==
    IF e = "KeyError" /\ f.ellipsoid = 0 THEN "failed_ellipsoid_0" ELSE "failed"

\* the same, the except block ending the loop
Mut_RunExcept ==
    /\ pc = "raised"
    /\ log' = Append(log, [file |-> current + 1, line |-> FailureLine(error, file)])
    /\ handles' = IF reader = Len(handles) THEN handles
                  ELSE Del(handles, Len(handles))
    /\ current' = Len(file_paths)
    /\ signals' = Append(signals, progress_signal(Len(file_paths), Len(file_paths)))
    /\ pc' = "next"
    /\ UNCHANGED <<error, file_paths, reader, readerVars, tableVars,
                   dedupVars, polyVars, stitchVars, guiVars>>

\* except Exception as e: the failure line, current += 1.  When the
\* constructor raised, the reader under construction is finalised as e is
\* deleted; when to_file raised, `reader` stays bound to its reader.
RunExcept ==
    /\ pc = "raised"
    /\ log' = Append(log, [file |-> current + 1, line |-> FailureLine(error, file)])
    /\ handles' = IF reader = Len(handles) THEN handles
                  ELSE Del(handles, Len(handles))
    /\ current' = current + 1
    /\ signals' = Append(signals, progress_signal(current + 1, Len(file_paths)))
    /\ pc' = "next"
    /\ UNCHANGED <<error, file_paths, reader, readerVars, tableVars,
                   dedupVars, polyVars, stitchVars, guiVars>>

\* the loop is over: the last line, finished_signal, and the return of run
\* drops the local `reader`
RunFinish ==
    /\ pc = "next" /\ current = Len(file_paths)
    /\ log' = Append(log, [file |-> 0, line |-> "all_done"])
    /\ handles' = Del(handles, reader)
    /\ reader' = 0
    /\ signals' = Append(signals, finished_signal)
    /\ pc' = "finished"
    /\ UNCHANGED <<error, file_paths, current, readerVars, tableVars,
                   dedupVars, polyVars, stitchVars, guiVars>>

NextBatch ==
    \/ RunConstruct
    \/ DetectShapeType
    \/ ReadHeaders
    \/ ParseAttributes
    \/ ParsePoints
    \/ ParseLines
    \/ ParsePolygons
    \/ BuildGeoDataFrame
    \/ RunAdvise
    \/ RunToFile
    \/ RunComplete
    \/ RunExcept
    \/ RunFinish

SpecBatch == InitBatch /\ [][NextBatch]_vars

\* QThread.start() runs run to its end: a step that can be taken is taken.
\* ParseAttributes can be taken exactly when pc = "feature" and RunToFile
\* exactly when pc = "save"; their weak fairness is written with these
\* conditions.
BatchFairness ==
    /\ WF_vars(RunConstruct) /\ WF_vars(DetectShapeType) /\ WF_vars(ReadHeaders)
    /\ ([]<>(pc # "feature") \/ []<><<ParseAttributes>>_vars)
    /\ WF_vars(ParsePoints) /\ WF_vars(ParseLines) /\ WF_vars(ParsePolygons)
    /\ WF_vars(BuildGeoDataFrame) /\ WF_vars(RunAdvise)
    /\ ([]<>(pc # "save") \/ []<><<RunToFile>>_vars)
    /\ WF_vars(RunComplete) /\ WF_vars(RunExcept) /\ WF_vars(RunFinish)

\* a file of each geometry, a file of an unknown kind and a file whose
\* table is repaired
FairBatchFiles ==
    {DefaultFile, DefaultLineFile, DefaultPolygonFile, FileOfTag(TagOther),
     MismatchFile(7)}

InitBatchFair ==
    /\ pc = "next" /\ error = ""
    /\ file_paths \in SeqsUpTo(FairBatchFiles, MaxBatch)
    /\ scale_factor \in {None, Some(Scale(2, 1))}
    /\ wkid \in {None, Some(4326)}
    /\ current = 0 /\ log = <<>> /\ handles = <<>> /\ reader = 0
    /\ signals = <<>>
    /\ file = NoFile /\ io = 0 /\ shape_type = "" /\ headers = <<>>
    /\ coordinate_scale = None /\ crs = NoCrs
    /\ TableIdle /\ DedupIdle /\ PolyIdle /\ StitchIdle /\ GuiIdle

SpecBatchFair == InitBatchFair /\ [][NextBatch]_vars /\ BatchFairness

-----------------------------------------------------------------------------
(* Specification of the widget and its conversion threads:                 *)
(* MapgisConvertConfigWidget.start_conversion, handle_convert_finished     *)
(* and the threads that start_conversion starts.                           *)
(*                                                                         *)
(* The handlers of the widget run one at a time in the main thread.  A     *)
(* ConvertThread runs beside them; its finished_signal is connected to a   *)
(* slot of the widget, which lives in the main thread, so an emission is   *)
(* queued and handle_convert_finished runs when the event loop comes to    *)
(* it.  A thread is running from start() until run has returned.           *)

\* Bound: the number of files the file dialog returns
MaxSelected == 2

\* Bound: the number of conversions started
MaxStarts == 3

InitGui ==
    /\ pc = "gui" /\ error = ""
    /\ selected_files = 0 /\ output_dir = FALSE
    /\ convert_button = TRUE /\ infobar = ""
    /\ threads = <<>> /\ events = 0
    /\ ReaderIdle /\ TableIdle /\ DedupIdle /\ PolyIdle /\ StitchIdle
    /\ file_paths = <<>> /\ current = 0 /\ log = <<>> /\ handles = <<>>
    /\ reader = 0 /\ signals = <<>>

\* choose_files: the list the dialog returns, empty when it was cancelled
choose_files ==
    /\ pc = "gui"
    /\ \E n \in 0..MaxSelected : selected_files' = n
    /\ UNCHANGED <<pc, error, output_dir, convert_button, infobar, threads,
                   events, batchVars, readerVars, tableVars, dedupVars,
                   polyVars, stitchVars>>

\* choose_output_folder: the folder the dialog returns, '' when cancelled
choose_output_folder ==
    /\ pc = "gui"
    /\ \E chosen \in BOOLEAN : output_dir' = chosen
    /\ UNCHANGED <<pc, error, selected_files, convert_button, infobar, threads,
                   events, batchVars, readerVars, tableVars, dedupVars,
                   polyVars, stitchVars>>

\* convert_button.clicked, which an enabled button emits: start_conversion
start_conversion ==
    /\ pc = "gui" /\ convert_button
    /\ IF selected_files = 0
       THEN /\ infobar' = "no_files"
            /\ UNCHANGED <<convert_button, threads>>
       ELSE IF ~output_dir
       THEN /\ infobar' = "no_folder"
            /\ UNCHANGED <<convert_button, threads>>
       ELSE /\ Len(threads) < MaxStarts
            /\ convert_button' = FALSE
            /\ threads' = Append(threads, [left |-> selected_files, at |-> "run"])
            /\ UNCHANGED infobar
    /\ UNCHANGED <<pc, error, selected_files, output_dir, events, batchVars,
                   readerVars, tableVars, dedupVars, polyVars, stitchVars>>

\* ConvertThread.run: a turn of the loop over file_paths
ThreadConvert ==
    /\ pc = "gui"
    /\ \E i \in 1..Len(threads) :
          /\ threads[i].at = "run" /\ threads[i].left > 0
          /\ threads' = [threads EXCEPT ![i].left = @ - 1]
    /\ UNCHANGED <<pc, error, selected_files, output_dir, convert_button,
                   infobar, events, batchVars, readerVars, tableVars,
                   dedupVars, polyVars, stitchVars>>

\* ConvertThread.run: the loop is over, self.finished_signal.emit()
ThreadEmit ==
    /\ pc = "gui"
    /\ \E i \in 1..Len(threads) :
          /\ threads[i].at = "run" /\ threads[i].left = 0
          /\ threads' = [threads EXCEPT ![i].at = "emitted"]
    /\ events' = events + 1
    /\ UNCHANGED <<pc, error, selected_files, output_dir, convert_button,
                   infobar, batchVars, readerVars, tableVars, dedupVars,
                   polyVars, stitchVars>>

\* ConvertThread.run returns and the thread ends
ThreadReturn ==
    /\ pc = "gui"
    /\ \E i \in 1..Len(threads) :
          /\ threads[i].at = "emitted"
          /\ threads' = [threads EXCEPT ![i].at = "returned"]
    /\ UNCHANGED <<pc, error, selected_files, output_dir, convert_button,
                   infobar, events, batchVars, readerVars, tableVars,
                   dedupVars, polyVars, stitchVars>>

\* the event loop delivers a queued finished_signal:
\* handle_convert_finished
handle_convert_finished ==
    /\ pc = "gui" /\ events > 0
    /\ events' = events - 1
    /\ convert_button' = TRUE
    /\ infobar' = "finished"
    /\ UNCHANGED <<pc, error, selected_files, output_dir, threads, batchVars,
                   readerVars, tableVars, dedupVars, polyVars, stitchVars>>

NextGui ==
    \/ choose_files
    \/ choose_output_folder
    \/ start_conversion
    \/ ThreadConvert
    \/ ThreadEmit
    \/ ThreadReturn
    \/ handle_convert_finished

SpecGui == InitGui /\ [][NextGui]_vars

\* a started thread runs on and the event loop delivers what is queued;
\* nothing makes the user click or choose
SpecGuiFair ==
    /\ SpecGui
    /\ WF_vars(ThreadConvert) /\ WF_vars(ThreadEmit) /\ WF_vars(ThreadReturn)
    /\ WF_vars(handle_convert_finished)

-----------------------------------------------------------------------------
(* Claims about _deduplicate_columns *)

\* the names produced before position i
Produced(i) == {res_head[j] : j \in 1..(i - 1)}
\* position i holds the first occurrence of its name in the input
FirstOccurrence(i) == \A j \in 1..(i - 1) : columns[j] # columns[i]
\* the name X-k for the smallest k >= 1 not produced before position i
SmallestFree(i) ==
    LET k == CHOOSE k \in 1..(Len(columns) + 1) :
                 /\ DashName(columns[i], k) \notin Produced(i)
                 /\ \A m \in 1..(k - 1) : DashName(columns[i], m) \in Produced(i)
    IN  DashName(columns[i], k)
Distinct(s) == \A i, j \in 1..Len(s) : i # j => s[i] # s[j]

\* C3 as claimed: same length, pairwise distinct, the first occurrence of
\* each name unchanged, each later occurrence X renamed X-k, k the smallest
\* not yet produced.
C3_AsClaimed ==
    pc = "dedup_done" =>
        /\ Len(res_head) = Len(columns)
        /\ Distinct(res_head)
        /\ \A i \in 1..Len(columns) :
              IF FirstOccurrence(i) THEN res_head[i] = columns[i]
              ELSE res_head[i] = SmallestFree(i)

\* C3 (amended): _deduplicate_columns returns a list of the same length
\* with pairwise distinct names; a name that equals no name produced before
\* it is unchanged, any other name X becomes X-k for the smallest k >= 1
\* such that X-k was not produced before; [A, B, A, A] gives
\* [A, B, A-1, A-2].
C3_Dedup ==
    pc = "dedup_done" =>
        /\ Len(res_head) = Len(columns)
        /\ Distinct(res_head)
        /\ \A i \in 1..Len(columns) :
              IF columns[i] \notin Produced(i) THEN res_head[i] = columns[i]
              ELSE res_head[i] = SmallestFree(i)
        /\ columns = <<NameA, NameB, NameA, NameA>>
              => res_head = <<NameA, NameB, NameA1, NameA2>>

\* a first occurrence ("A-1") that is renamed because it was produced before
C3_Witness ==
    /\ pc = "dedup_done"
    /\ columns = <<NameA, NameA, NameA1>>
    /\ res_head = <<NameA, NameA1, <<"A", "-", "1", "-", "1">> >>

-----------------------------------------------------------------------------
(* Claims about get_multipolygons *)

\* the containers of ring i of `lines`
ContainersOf(i) == Containers(Relation(lines), i)
Uncontained == {i \in 1..Len(lines) : ContainersOf(i) = {}}

\* the rings whose single container is ring i, in list order
RECURSIVE HolesFrom(_, _)
HolesFrom(i, j) ==
    IF j > Len(lines) THEN <<>>
    ELSE (IF ContainersOf(j) = {i} THEN <<lines[j]>> ELSE <<>>) \o HolesFrom(i, j + 1)

ExpectedPolygon(i) == Polygon(lines[i], HolesFrom(i, 1))

\* one polygon per uncontained ring, its holes the rings it alone contains
OnePolygonPerOuterRing ==
    /\ Len(polygons) = Cardinality(Uncontained)
    /\ \A i \in Uncontained : \E p \in 1..Len(polygons) : polygons[p] = ExpectedPolygon(i)
    /\ \A p \in 1..Len(polygons) : \E i \in Uncontained : polygons[p] = ExpectedPolygon(i)

NoRingHasTwoContainers == \A i \in 1..Len(lines) : Cardinality(ContainersOf(i)) <= 1
ContainersAreOuter == \A i \in 1..Len(lines) : ContainersOf(i) \subseteq Uncontained

\* C5 as claimed: when no ring has more than one container, there is exactly
\* one polygon per ring without container, with the rings it alone contains
\* as holes.
C5_AsClaimed ==
    (pc = "gm_done" /\ NoRingHasTwoContainers) => OnePolygonPerOuterRing

\* C5 (amended): when no ring has more than one container and no container
\* is itself contained in a ring, get_multipolygons returns exactly one
\* polygon per ring without container, whose holes are exactly the rings
\* whose single container is that ring; a square with a smaller square
\* inside gives one polygon with one hole, two disjoint squares give two
\* polygons without holes.
C5_Multipolygons ==
    (pc # "gm_call" /\ NoRingHasTwoContainers /\ ContainersAreOuter) =>
        /\ pc = "gm_done"
        /\ OnePolygonPerOuterRing
        /\ lines = <<Square(0, 3), Square(1, 2)>>
              => polygons = <<Polygon(Square(0, 3), <<Square(1, 2)>>)>>
        /\ lines = <<Square(0, 1), Square(2, 3)>>
              => polygons = <<Polygon(Square(0, 1), <<>>), Polygon(Square(2, 3), <<>>)>>

C5_Witness ==
    /\ pc = "gm_done"
    /\ lines = <<Square(0, 3), Square(1, 2)>>
    /\ Len(polygons) = 1
    /\ Len(polygons[1].holes) = 1

-----------------------------------------------------------------------------
(* Claims about to_file *)

\* the cells of the model whose absolute value is above 1e12
Above1e12 == {Num(2, 12), Num(2, 13), Num(-3, 13)}
SanitizedCell(cell) ==
    IF cell = None \/ Val(cell) \in Above1e12 THEN Some(Zero) ELSE cell

\* C9: to_file replaces by 0 every cell of every numeric column that is
\* null or above 1e12 in absolute value and leaves every other cell of it
\* unchanged, 1e12 and -1e12 included; [5, 2e13, null, -3e13] becomes
\* [5, 0, 0, 0].
C9_ToFile ==
    [][(pc = "constructed" /\ pc' = "written") =>
        /\ Len(geodataframe'.cols) = Len(geodataframe.cols)
        /\ \A k \in 1..Len(geodataframe.cols) :
              geodataframe.cols[k].dtype \in NumericDtypes =>
                 /\ DOMAIN geodataframe'.cols[k].vals = DOMAIN geodataframe.cols[k].vals
                 /\ \A r \in DOMAIN geodataframe.cols[k].vals :
                       geodataframe'.cols[k].vals[r] =
                           SanitizedCell(geodataframe.cols[k].vals[r])
        /\ geodataframe.cols[1].vals =
              <<Some(Num(5, 0)), Some(Num(2, 13)), None, Some(Num(-3, 13))>>
              => geodataframe'.cols[1].vals =
                     <<Some(Num(5, 0)), Some(Zero), Some(Zero), Some(Zero)>>
      ]_vars

\* a written table whose float column held 1e12, a null and -3e13
C9_Witness ==
    /\ pc = "written"
    /\ Len(geodataframe.cols[1].vals) = 3
    /\ geodataframe.cols[1].vals = <<Some(Num(1, 12)), Some(Zero), Some(Zero)>>

-----------------------------------------------------------------------------
(* Claims about _build_geodataframe *)

\* C8 as claimed: after _build_geodataframe the attribute table and the
\* geometry list have the same length, the smaller of the two lengths
\* before, the first rows of each kept in order, and the repaired flag is
\* true exactly when the two lengths differed.
C8_AsClaimed ==
    [][(pc = "build" /\ pc' = "constructed") =>
        LET m == Min(data.n, Len(geom))
        IN  /\ data'.n = m /\ Len(geom') = m
            /\ data' = ILoc(data, m)
            /\ geom' = Prefix(geom, m)
            /\ geodataframe'.n = m
            /\ repaired' = (data.n # Len(geom))
      ]_vars

-----------------------------------------------------------------------------
(* Claims about the constructor *)

\* the constructor has gone past the stage
PastDetect == pc \notin {"detect"}
PastHeaders == pc \notin {"detect", "headers"}

\* C1: opening a file whose first 8 bytes are not one of the three tags
\* fails with InvalidFileError, and the 8-byte read is the only read or seek
\* on the file.  (The code decodes the 8 bytes as GBK before it looks them
\* up: bytes that are not GBK text fail with UnicodeDecodeError.)
C1_AsClaimed ==
    (PastDetect /\ file.tag \notin DOMAIN type_dict)
        => (pc = "raised" /\ error = "InvalidFileError" /\ io = 1)

\* C2: a file with a valid tag whose header table holds fewer than 10 x 10
\* bytes fails in the constructor with the error CorruptHeader.  (The code
\* has no such error and no length check: _read_headers keeps the short
\* blocks and the constructor goes on.)
C2_AsClaimed ==
    (PastHeaders /\ file.tag \in DOMAIN type_dict /\ file.preamble
        /\ file.hdrBytes < HeaderCount * HeaderSize)
        => (pc = "raised" /\ error = "CorruptHeader")

\* the reader has parsed the geometry without an exception
GeometryParsed == pc \in {"build", "constructed", "written"}

\* C4: a point layer whose header block 0 gives the volume V yields V/93 - 1
\* point geometries (none if V < 93), the i-th being the (x, y) of the i-th
\* record after the skipped first one times the coordinate scale, in file
\* order.
C4_Points ==
    (GeometryParsed /\ shape_type = "POINT") =>
        LET V == file.vol0
            s == Val(coordinate_scale)
        IN  /\ V >= 93 => Len(geom) = (V \div 93) - 1
            /\ V < 93 => Len(geom) = 0
            /\ \A i \in 1..Len(geom) :
                  /\ geom[i].x * s.den = file.points[i][1] * s.num * geom[i].den
                  /\ geom[i].y * s.den = file.points[i][2] * s.num * geom[i].den

\* 3 records after the first, scale 2: the 3 points times 2, in order
C4_Witness ==
    /\ pc = "build" /\ shape_type = "POINT"
    /\ file.vol0 = 4 * 93
    /\ file.points = << <<1, 2>>, <<3, 4>>, <<1, 2>> >>
    /\ coordinate_scale = Some(Scale(2, 1))
    /\ geom = << [x |-> 2, y |-> 4, den |-> 1], [x |-> 6, y |-> 8, den |-> 1],
                 [x |-> 2, y |-> 4, den |-> 1] >>

-----------------------------------------------------------------------------
(* Claims about _parse_crs *)

\* the exceptions _parse_crs raises
CrsErrors == {"KeyError", "ValueError", "CRSError"}

EmptyCrs == [kind |-> "empty"]

\* C6: with the ellipsoid code 0 in the file and no wkid given, _parse_crs
\* leaves the empty CRS and raises nothing, for every projection type and
\* every scale.
C6_EmptyCrs ==
    [][(pc = "geometry" /\ file.ellipsoid = 0 /\ wkid = None)
          => (crs' = EmptyCrs /\ error' \notin CrsErrors)]_vars

C6_Witness ==
    /\ pc = "build" /\ file.ellipsoid = 0 /\ wkid = None
    /\ file.proj_type = 5 /\ file.scale = Scale(1000, 1)
    /\ crs = EmptyCrs

\* C7: with a wkid given (an EPSG code the library knows), _parse_crs leaves
\* the CRS of that code and raises nothing, for every projection type,
\* ellipsoid and scale of the file: never a CRS derived from the file, never
\* the empty CRS.
C7_WkidWins ==
    [][(pc = "geometry" /\ wkid # None /\ Val(wkid) \in EpsgCodes)
          => (crs' = [kind |-> "epsg", code |-> Val(wkid)]
              /\ error' \notin CrsErrors)]_vars

C7_Witness ==
    /\ pc = "build" /\ wkid = Some(4490)
    /\ file.ellipsoid = 0 /\ file.proj_type = 0 /\ file.scale = Scale(0, 1)
    /\ crs = [kind |-> "epsg", code |-> 4490]

\* C10: with an ellipsoid code in the file that is nonzero and not a key of
\* ellip_dict, and no wkid given, _parse_crs raises nothing for any
\* projection type and leaves the empty CRS.  (For the projection types 0
\* and 5 the code looks the ellipsoid up in ellip_dict after it has set the
\* empty CRS: KeyError.)
C10_AsClaimed ==
    [][(pc = "geometry" /\ file.ellipsoid # 0 /\ file.ellipsoid \notin ellip_dict
            /\ wkid = None)
          => (crs' = EmptyCrs /\ error' \notin CrsErrors)]_vars

-----------------------------------------------------------------------------
(* Claims about the batch *)

\* the constructor of the current turn is running or has raised
Constructing ==
    pc \in {"detect", "headers", "feature", "geometry", "build", "constructed"}
        \/ (pc = "raised" /\ reader # Len(handles))

-----------------------------------------------------------------------------
(* Claims about _parse_polygons *)

\* the coordinate system and the segments of the polygon file decode
SegmentsDecode ==
    LET c == _parse_crs(file, coordinate_scale, wkid, crs)
    IN  /\ c.error = ""
        /\ _parse_lines(file, headers, Val(c.coordinate_scale)).error = ""

\* the file holds fewer topology records than header block 3 announces
TopologyTruncated == TopoCount(file) > Len(file.topo)

\* the exceptions of _parse_polygons that are no truncated read
OtherErrors == {"KeyError", "ValueError", "CRSError", "IndexError",
                "GEOSException", "RecursionError"}

\* C12: when a read of the topology section of a polygon file comes back
\* truncated, _parse_polygons fails with the Exception that carries the
\* advice to re-save the file, never with struct.error; an exception of the
\* procedure that is no truncated read leaves it unchanged.
C12_TopologyTruncated ==
    [][(pc = "geometry" /\ shape_type = "POLYGON") =>
          /\ (SegmentsDecode /\ TopologyTruncated)
                => (pc' = "raised" /\ error' = "Exception")
          /\ error' # "struct.error"
          /\ \A e \in OtherErrors :
                (_parse_crs(file, coordinate_scale, wkid, crs).error = e
                 \/ (SegmentsDecode /\ ~TopologyTruncated
                     /\ PolygonsTry(file, headers,
                            Val(_parse_crs(file, coordinate_scale, wkid,
                                           crs).coordinate_scale)).error = e))
                => (pc' = "raised" /\ error' = e)]_vars

\* a polygon file of one closed segment whose topology section announces
\* one record and holds none
C12_Witness ==
    /\ pc = "raised" /\ error = "Exception" /\ shape_type = "POLYGON"
    /\ file.lineRecs = <<Seg(Square(0, 3))>>
    /\ file.topoVol = 2 * TopoRecordSize /\ file.topo = <<>>
    /\ file.ellipsoid = 7 /\ data # NoFrame

-----------------------------------------------------------------------------
(* Claims about the attribute table *)

\* the cells of the String fields of the attribute table whose bytes do
\* not decode: (column, row, bytes, position of the first invalid byte)
BrokenStrings ==
    LET kept == KeptFields(file.fields)
    IN  {cr \in (1..Len(kept)) \X (1..AttributeRows(file)) :
            /\ kept[cr[1]].type = 0
            /\ GbkErrorPosition(FieldBytes(kept, cr[1], RowBytes(file, cr[2])), 0) >= 0}

\* C13: a String field whose bytes fail to decode at position p is decoded
\* as its first p bytes, and the table is built without an error.
C13_AsClaimed ==
    (pc = "geometry" /\ error = "") =>
        \A cr \in BrokenStrings :
            LET value == FieldBytes(KeptFields(file.fields), cr[1],
                                    RowBytes(file, cr[2]))
            IN  data.cols[cr[1]].vals[cr[2]]
                    = Some(GbkDecodeReplace(
                               PySlice(value, 0, GbkErrorPosition(value, 0))))

-----------------------------------------------------------------------------
(* Claims about ConvertThread.run *)

\* the lines that end the turn of a file
OutcomeLines == {"complete", "failed", "failed_ellipsoid_0"}

\* the positions of the log with a line of `kinds` about file i
LinesOf(i, kinds) ==
    {k \in 1..Len(log) : log[k].file = i /\ log[k].line \in kinds}

\* C14: a failure while a file is decoded or written does not stop the
\* batch.  The files are opened one per turn in list order (the k-th
\* reader is built from the k-th path); a file whose turn is over has
\* exactly one outcome line, a completion or a failure line, a file whose
\* turn has not begun has no line, and the lines of the log follow the
\* list order; run returns only when every file had its turn.
C14_BatchGoesOn ==
    /\ current <= Len(file_paths)
    /\ Len(handles) = current + (IF pc \in {"next", "finished"} THEN 0 ELSE 1)
    /\ pc \notin {"next", "finished"} => file = file_paths[current + 1]
    /\ \A i \in 1..Len(file_paths) :
          /\ i <= current => Cardinality(LinesOf(i, OutcomeLines)) = 1
          /\ i = current + 1 => LinesOf(i, OutcomeLines) = {}
          /\ i > current + 1 => \A k \in 1..Len(log) : log[k].file # i
    /\ \A k \in 1..Len(log) : \A m \in k..Len(log) :
          log[m].file # 0 => log[k].file <= log[m].file
    /\ \A k \in 1..Len(log) : log[k].file \in 0..Len(file_paths)
    /\ pc = "finished" =>
          /\ current = Len(file_paths)
          /\ log[Len(log)] = [file |-> 0, line |-> "all_done"]
          /\ Cardinality(LinesOf(0, {"all_done"})) = 1

\* a batch of two files: the decoding of the first fails, the second is
\* decoded and its writing fails
C14_Witness ==
    /\ pc = "finished" /\ Len(file_paths) = 2
    /\ log = <<[file |-> 1, line |-> "failed"],
               [file |-> 2, line |-> "success"],
               [file |-> 2, line |-> "failed"],
               [file |-> 0, line |-> "all_done"]>>

\* C15: whenever the reader of a file was built with the repaired flag
\* set, the log has the data-repaired line of that file, whatever its
\* coordinate system is.
C15_AsClaimed ==
    (pc = "save" /\ repaired) => LinesOf(current + 1, {"repaired"}) # {}

-----------------------------------------------------------------------------
(* Claims about the coordinate scale *)

\* two scales are the same number
SameScale(a, b) == a.num * b.den = b.num * a.den

\* every point of a point layer is its (x, y) of the file times sc
PointsTimes(sc) ==
    shape_type = "POINT" =>
        \A i \in 1..Len(geom) :
            /\ geom[i].x * sc.den = file.points[i][1] * sc.num * geom[i].den
            /\ geom[i].y * sc.den = file.points[i][2] * sc.num * geom[i].den

\* the override when there is one, else the scale of the file
StartScale == IF scale_factor # None THEN Val(scale_factor) ELSE file.scale

\* C16 as stated: the factor of the coordinates is the override when there
\* is one, else the scale of the file, for every projection and ellipsoid.
C16_AsClaimed ==
    GeometryParsed =>
        /\ SameScale(Val(coordinate_scale), StartScale)
        /\ PointsTimes(StartScale)

\* the scale _parse_crs works out.  With ellipsoid 0 and no wkid (or the
\* wkid 0) it is the start value.  Otherwise the start value is replaced
\* (override / 1000, or 1 without an override) when the ellipsoid code is
\* unknown or the start value is 0, and the result is divided by 1000 for
\* the projection types 2 and 3 without a wkid.
NormalizedScale ==
    LET invalid == file.ellipsoid \notin ellip_dict \/ StartScale.num = 0
        first == IF ~invalid THEN StartScale
                 ELSE IF scale_factor # None
                      THEN Scale(StartScale.num, StartScale.den * 1000)
                 ELSE Scale(1, 1)
    IN  IF file.ellipsoid = 0 /\ wkid \in {None, Some(0)} THEN StartScale
        ELSE IF file.proj_type \in {2, 3} /\ wkid = None
        THEN Scale(first.num, first.den * 1000) ELSE first

\* C16: one factor is multiplied into every coordinate of the layer: the
\* override when there is one, else the scale of the file, after the
\* normalisation of _parse_crs (NormalizedScale).
C16_Scale ==
    GeometryParsed =>
        /\ SameScale(Val(coordinate_scale), NormalizedScale)
        /\ PointsTimes(NormalizedScale)

\* the override 2 on a file of projection type 2 with a known ellipsoid:
\* the points are multiplied by 2 / 1000
C16_Witness ==
    /\ pc = "build" /\ shape_type = "POINT"
    /\ scale_factor = Some(Scale(2, 1)) /\ wkid = None
    /\ file.proj_type = 2 /\ file.ellipsoid = 7
    /\ coordinate_scale = Some(Scale(2, 1000))
    /\ Len(geom) = 2 /\ geom[1] = [x |-> 2, y |-> 4, den |-> 1000]

-----------------------------------------------------------------------------
(* Claims about the lifetime of the feature table *)

\* C17: to_file leaves the feature table of the reader as it was before
\* the call, values and column names (so that a second call writes what
\* the first wrote from the same table).
C17_AsClaimed ==
    [][(pc = "constructed" /\ pc' = "written") => geodataframe' = geodataframe]_vars

-----------------------------------------------------------------------------
(* Claims about the coordinate system _parse_crs leaves *)

\* C18: for every projection type, ellipsoid, scale and presence of the
\* two overrides, _parse_crs returns with self.crs assigned: the empty CRS
\* (here '' or None), a CRS derived from the file only when no wkid was
\* given, or the CRS of the wkid only when one was given.
C18_AsClaimed ==
    [][pc = "geometry" =>
          /\ _parse_crs(file, coordinate_scale, wkid, crs).error = ""
          /\ crs'.kind \in {"empty", "none", "tmerc", "longlat", "epsg"}
          /\ crs'.kind \in {"tmerc", "longlat"} => wkid = None
          /\ crs'.kind = "epsg" => wkid # None]_vars

\* _parse_crs goes on to the branches on the projection type: it has not
\* returned for ellipsoid 0 without a wkid
BranchReached == ~(file.ellipsoid = 0 /\ wkid \in {None, Some(0)})

\* self.coordinate_scale as the block on the ellipsoid leaves it
ScaleAtBranch ==
    IF ~BranchReached \/ (file.ellipsoid \in ellip_dict /\ StartScale.num # 0)
    THEN StartScale
    ELSE IF scale_factor # None
         THEN Scale(StartScale.num, StartScale.den * 1000)
    ELSE Scale(1, 1)

\* the outcome of the branch of the projection types 2 and 3 in the step
\* of _parse_crs: without a wkid the scale is divided by 1000 once and,
\* when the procedure returns, the CRS is None; with a wkid the scale is
\* not divided and, when the procedure returns, the CRS is the one of the
\* wkid
BranchOutcome ==
    /\ SameScale(Val(coordinate_scale'),
                 IF wkid = None
                 THEN Scale(ScaleAtBranch.num, ScaleAtBranch.den * 1000)
                 ELSE ScaleAtBranch)
    /\ _parse_crs(file, coordinate_scale, wkid, crs).error = "" =>
          crs' = IF wkid = None THEN [kind |-> "none"]
                 ELSE [kind |-> "epsg", code |-> Val(wkid)]

\* C19 as stated: for every file of projection type 2 or 3, without a wkid
\* _parse_crs divides the coordinate scale by 1000 once and leaves the CRS
\* unset; with a wkid it does not divide and the CRS is the explicit one.
C19_AsClaimed ==
    [][(pc = "geometry" /\ file.proj_type \in {2, 3}) => BranchOutcome]_vars

\* C19: the same for the files with which _parse_crs reaches the branch on
\* the projection type, that is, unless the ellipsoid code is 0 and no
\* wkid (or the wkid 0) is given: there it has returned before, the scale
\* undivided and the CRS empty.
C19_Branch ==
    [][(pc = "geometry" /\ file.proj_type \in {2, 3} /\ BranchReached)
          => BranchOutcome]_vars

\* projection type 2, ellipsoid 7, the scale 2 of the file, no override:
\* the scale is 2 / 1000 and the CRS is None
C19_Witness ==
    /\ pc = "build" /\ file.proj_type = 2 /\ file.ellipsoid = 7
    /\ scale_factor = None /\ wkid = None /\ file.scale = Scale(2, 1)
    /\ coordinate_scale = Some(Scale(2, 1000))
    /\ crs = [kind |-> "none"]

-----------------------------------------------------------------------------
(* Claims about the fields of the attribute table *)

\* the positions of the descriptor table whose type code is one of 0..7
KeptPositions == {i \in 1..Len(file.fields) : file.fields[i].type \in 0..7}

\* the descriptor of the k-th of them
KeptDescriptor(k) ==
    file.fields[CHOOSE i \in KeptPositions :
                    Cardinality({j \in KeptPositions : j <= i}) = k]

\* the end of the byte range of the k-th kept field
RangeEnd(k) ==
    IF k < Cardinality(KeptPositions) THEN KeptDescriptor(k + 1).offset
    ELSE file.record_length

\* C20: the fields of a type code outside 0..7 are not in the decoded
\* table, the kept fields are in the order of the descriptor table, the
\* value of a kept field is decoded from the bytes of the record from its
\* offset to the offset of the next kept field (the last kept field: to
\* the record length), and the actual length recorded in self.fields is
\* the size of that range.
C20_KeptFields ==
    LET K == Cardinality(KeptPositions)
        info == IF shape_type = "POINT" THEN PointInfo(file)
                ELSE IF shape_type = "LINE" THEN LineInfo(file)
                ELSE PolygonInfo(file)
    IN  /\ fields # <<>> =>
              fields = [k \in 1..K |->
                          [name |-> KeptDescriptor(k).name,
                           type |-> field_type_dict(KeptDescriptor(k).type),
                           length |-> RangeEnd(k) - KeptDescriptor(k).offset]]
        /\ (pc = "geometry" /\ error = "") =>
              /\ columns = [k \in 1..K |-> KeptDescriptor(k).name]
                               \o FrameNames(info)
              /\ \A k \in 1..K : \A r \in 1..AttributeRows(file) :
                    data.cols[k].vals[r] =
                        Some(DecodeValue(KeptDescriptor(k).type,
                                 PySlice(RowBytes(file, r),
                                         KeptDescriptor(k).offset,
                                         RangeEnd(k))).val)

\* a text at 0, a field of type 255 at 4 and an integer at 8 in records of
\* 12 bytes: the text is decoded from the bytes 0..7, the integer from the
\* bytes 8..11, and the field of type 255 is no column
C20_Witness ==
    /\ pc = "geometry" /\ error = ""
    /\ file.fields = <<Field(NameS, 0, 0), Field(NameX, 255, 4), Field(NameN, 3, 8)>>
    /\ file.rows[1] = <<65, 66, 0, 0, 181, 227, 67, 0, 5, 0, 0, 0>>
    /\ fields = <<[name |-> NameS, type |-> "string", length |-> 8],
                  [name |-> NameN, type |-> "int", length |-> 4]>>
    /\ data.cols[1].vals[1] = Some(<<"A", "B", "U0000", "U0000", "U70B9", "C">>)
    /\ data.cols[2].vals[1] = Some(Num(5, 0))
    /\ \A c \in 1..Len(data.cols) : data.cols[c].name # NameX

-----------------------------------------------------------------------------
(* Claims about the rows of the attribute table *)

\* C21: after the descriptor table _parse_attributes skips one record
\* length of bytes and produces record_count - 1 rows, the i-th of them
\* decoded from the bytes [i * record_length, (i + 1) * record_length) of
\* the block after the skipped record, in file order.  Every column of a
\* kept field has a value in the rows 1..record_count - 1 and in no other
\* row of the table, and the value in row r is decoded from the r-th
\* record after the first of the bytes that follow the descriptor table.
C21_Rows ==
    (pc = "geometry" /\ error = "") =>
        LET rl == file.record_length
            block == AttributeBlock(file)
        IN  \A k \in 1..Cardinality(KeptPositions) : \A r \in 1..data.n :
               data.cols[k].vals[r] =
                  IF r <= file.record_count - 1
                  THEN Some(DecodeValue(KeptDescriptor(k).type,
                                PySlice(PySlice(block, rl * r, rl * (r + 1)),
                                        KeptDescriptor(k).offset,
                                        RangeEnd(k))).val)
                  ELSE None

\* records of 8 bytes, 3 announced: the two rows are the second and the
\* third record of the block, the 2 points give the table no third row
C21_Witness ==
    /\ pc = "geometry" /\ error = ""
    /\ file.record_length = 8 /\ file.record_count = 3
    /\ file.fields = <<Field(NameS, 0, 0)>>
    /\ AttributeBlock(file) =
          <<170, 170, 170, 170, 170, 170, 170, 170,
            65, 66, 0, 0, 66, 0, 0, 0, 67, 0, 0, 0, 65, 66, 0, 0>>
    /\ data.n = 2
    /\ data.cols[1].vals = <<Some(<<"A", "B", "U0000", "U0000", "B">>),
                             Some(<<"C", "U0000", "U0000", "U0000", "A", "B">>)>>

-----------------------------------------------------------------------------
(* Claims about the recursion of get_multipolygons *)

\* the rings of the polygons returned, shells and holes
RECURSIVE RingsOf(_)
RingsOf(ps) ==
    IF ps = <<>> THEN <<>>
    ELSE <<Head(ps).shell>> \o Head(ps).holes \o RingsOf(Tail(ps))

\* how often the ring v is in the list
CountIn(seq, v) == Cardinality({k \in 1..Len(seq) : seq[k] = v})

\* C22: get_multipolygons recurses whenever a ring has two or more
\* containers and hands every such ring to the recursive call, so that
\* every ring of the input is in the result exactly once, as the shell or
\* as a hole of one polygon.
C22_AsClaimed ==
    pc = "gm_done" =>
        /\ Len(RingsOf(polygons)) = Len(lines)
        /\ \A k \in 1..Len(lines) :
              CountIn(RingsOf(polygons), lines[k]) = CountIn(lines, lines[k])

\* C23: get_multipolygons returns for every list of rings, also when every
\* ring has two or more containers: no call goes on calling itself until
\* the interpreter ends it with RecursionError.
C23_AsClaimed == pc # "gm_raised" /\ error # "RecursionError"

\* C24: relation[i][i] is 0, and where the polygon-in-polygon test of the
\* rings i and j fails with an error, relation[i][j] is 1 exactly when all
\* vertices of ring i lie within polygon j.
C24_AsClaimed ==
    LET rel == Relation(lines)
    IN  \A i \in 1..Len(lines) :
           /\ rel[i][i] = 0
           /\ \A j \in 1..Len(lines) :
                 (i # j /\ PolygonWithinRaises(lines[i], lines[j])) =>
                    (rel[i][j] = 1 <=>
                        \A k \in 1..Len(lines[i]) : PointWithin(lines[i][k], lines[j]))


-----------------------------------------------------------------------------
(* Claims about the stitching of segments in _parse_polygons *)

\* the stitching joined a segment to the ring in this step
JoinStep == pc = "st_grow" /\ pc' = "st_grow" /\ st_m' # st_m

\* the stitching closed the ring off in this step
CloseStep == pc = "st_grow" /\ pc' = "st_pop"

\* the filter of the chains ran in this step
FilterStep == pc = "st_pop" /\ pc' = "st_done"

\* the chains of more than 2 points, in their order
ChainsKept(ls) ==
    LET Long(r) == Len(r) > 2
    IN  SelectSeq(ls, Long)

\* the four ways of joining, the test of the ends being the relation Same
JoinedAs(Same(_, _), ring, seg, joined) ==
    \/ Same(Last(ring), seg[1]) /\ joined = ring \o Tail(seg)
    \/ Same(Last(ring), Last(seg)) /\ joined = ring \o Reverse(Front(seg))
    \/ Same(ring[1], Last(seg)) /\ joined = Front(seg) \o ring
    \/ Same(ring[1], seg[1]) /\ joined = Front(Reverse(seg)) \o ring

\* some end of the segment is, by Same, an end of the ring
Touches(Same(_, _), ring, seg) ==
    \E a \in {ring[1], Last(ring)}, b \in {seg[1], Last(seg)} : Same(a, b)

\* what the stitching does in a step, the test of the ends being Same
StitchesBy(Same(_, _)) ==
    /\ JoinStep =>
          \E idx \in 1..Len(st_m) :
             /\ st_m' = RemoveAt(st_m, idx)
             /\ JoinedAs(Same, st_ring, st_m[idx], st_ring')
    /\ CloseStep =>
          /\ st_lines' = Append(st_lines, st_ring)
          /\ \A k \in 1..Len(st_m) :
                st_m[k] # <<>> => ~Touches(Same, st_ring, st_m[k])
    /\ FilterStep =>
          /\ st_lines' = ChainsKept(st_lines)
          /\ \A k \in 1..Len(st_lines') : Len(st_lines'[k]) > 2

\* the points are the same
EqualPoint(p, q) == p = q

\* the coordinate a is within 1e-8 + 1e-5 * |b| of the coordinate b
NearCoordinate(a, b) ==
    /\ Abs(a - b) <= 21
    /\ 100000000 * Abs(a - b) <= 1 + 1000 * Abs(b)

\* the point p of the ring is near the point q of the segment
NearPoint(p, q) == NearCoordinate(p[1], q[1]) /\ NearCoordinate(p[2], q[2])

\* C25 as it is claimed: a segment is joined to the ring only when one of
\* its ends equals an end of the ring, in one of the four ways and with
\* the shared point once in the joined ring; a ring is closed off only
\* when no segment that is left has an end equal to an end of the ring;
\* the chains of 2 or fewer points are discarded.
C25_AsClaimed == [][StitchesBy(EqualPoint)]_vars

\* C25: a segment is joined to the ring only when one of its ends is
\* within 1e-8 + 1e-5 * |b| per coordinate of an end of the ring (b the
\* coordinate of the segment), in one of the four ways, the end of the
\* ring being kept and the end of the segment left out; a ring is closed
\* off only when no segment that is left has an end that near to an end of
\* the ring; the chains of 2 or fewer points are discarded.
C25_Stitching == [][StitchesBy(NearPoint)]_vars

\* the ring (0,0)-(100000,0) took the segment (100001,0)-(3,3): the ends
\* are 1 apart, the chain of 3 points is kept
C25_Witness ==
    /\ pc = "st_done"
    /\ st_in = << << <<0, 0>>, FarA >>, << FarB, <<3, 3>> >> >>
    /\ st_lines = << << <<0, 0>>, FarA, <<3, 3>> >> >>

\* the number of edges of the chains
RECURSIVE Edges(_)
Edges(ls) == IF ls = <<>> THEN 0 ELSE Len(Head(ls)) - 1 + Edges(Tail(ls))

\* the loop over m has ended and the filter has not run yet
Stitched == pc = "st_pop" /\ st_m = <<>>

\* the segments that went into the chain c under the assignment f
SegmentsOf(f, c) == {k \in 1..Len(st_in) : f[k] = c}

\* the chain is made of the segment: its inner points are in the chain and
\* each of its ends is in the chain or near a point of it
MadeOf(chain, seg) ==
    \A i \in 1..Len(seg) :
       \E j \in 1..Len(chain) :
          \/ chain[j] = seg[i]
          \/ i \in {1, Len(seg)} /\ NearPoint(chain[j], seg[i])

RECURSIVE EdgesOf(_)
EdgesOf(S) ==
    IF S = {} THEN 0
    ELSE LET k == CHOOSE x \in S : TRUE
         IN  Len(st_in[k]) - 1 + EdgesOf(S \ {k})

\* every segment is in one chain and every chain has the edges of its
\* segments and no more
Consumed ==
    \E f \in [1..Len(st_in) -> 1..Len(st_lines)] :
       \A c \in 1..Len(st_lines) :
          /\ SegmentsOf(f, c) # {}
          /\ Len(st_lines[c]) - 1 = EdgesOf(SegmentsOf(f, c))
          /\ \A k \in SegmentsOf(f, c) : MadeOf(st_lines[c], st_in[k])

\* C29: the loops of the stitching end for every list of segments, with
\* the filter or with the IndexError of a segment without points; when
\* the loop over m has ended, every segment is in exactly one chain: the
\* chains have the edges of the segments, none left out and none twice.
C29_Terminates ==
    /\ <>(pc \in {"st_done", "st_raised"})
    /\ [](Stitched => (st_in # <<>> => Consumed))
    /\ [](Stitched => Edges(st_lines) = Edges(st_in))

\* three segments went into two chains: the first took the third, the
\* second stays alone
C29_Witness ==
    /\ Stitched
    /\ st_in = << << <<0, 0>>, <<3, 0>> >>, << FarB, <<3, 3>> >>,
                  << <<0, 3>>, <<0, 0>> >> >>
    /\ st_lines = << << <<0, 3>>, <<0, 0>>, <<3, 0>> >>, << FarB, <<3, 3>> >> >>


-----------------------------------------------------------------------------
(* Claims about _sanitize_field_names *)

\* _sanitize_field_names ran in this step
SanitizeStep == pc = "constructed" /\ pc' = "sanitized"

\* the columns are renamed and nothing else: as many, in the same order
SameColumns(df, out) ==
    /\ Len(out.cols) = Len(df.cols)
    /\ \A k \in 1..Len(df.cols) :
          out.cols[k] = [df.cols[k] EXCEPT !.name = out.cols[k].name]
    /\ out.geometry = df.geometry

PairwiseDistinct(names) ==
    \A i, j \in 1..Len(names) : i # j => names[i] # names[j]

\* the names of unmapped columns have at most 10 characters
UnmappedShort(old, new) ==
    \A k \in 1..Len(old) :
       old[k] \notin DOMAIN field_map => Len(new[k]) <= 10

\* the name is the identifier with _1, _2, ...: the first that no earlier
\* column has, the identifier itself being taken
Suffixed(ident, name, earlier) ==
    /\ ident \in earlier
    /\ \E idx \in 1..(Cardinality(earlier) + 1) :
          /\ name = ident \o <<"_">> \o Digits(idx)
          /\ \A i \in 1..(idx - 1) : (ident \o <<"_">> \o Digits(i)) \in earlier

\* C26 as it is claimed: the names that _sanitize_field_names returns are
\* pairwise distinct for every column list, as many and in the same
\* order; a name derived of an unmapped column has at most 10 characters,
\* also with a numeric suffix; a column whose name is in the dictionary
\* gets the identifier of the dictionary.
C26_AsClaimed ==
    [][SanitizeStep =>
          LET old == ColumnNames(geodataframe)
              new == ColumnNames(geodataframe')
          IN  /\ SameColumns(geodataframe, geodataframe')
              /\ PairwiseDistinct(new)
              /\ UnmappedShort(old, new)
              /\ \A k \in 1..Len(old) :
                    old[k] \in DOMAIN field_map => new[k] = field_map[old[k]]]_vars

\* C26: the names that _sanitize_field_names returns are pairwise distinct
\* for every column list, as many and in the same order; a name derived
\* of an unmapped column has at most 10 characters, also with a numeric
\* suffix; a column whose name is in the dictionary gets the identifier of
\* the dictionary, or, when an earlier column has that name already, the
\* identifier with the first of _1, _2, ... that no earlier column has.
C26_Names ==
    [][SanitizeStep =>
          LET old == ColumnNames(geodataframe)
              new == ColumnNames(geodataframe')
          IN  /\ SameColumns(geodataframe, geodataframe')
              /\ PairwiseDistinct(new)
              /\ UnmappedShort(old, new)
              /\ \A k \in 1..Len(old) :
                    old[k] \in DOMAIN field_map =>
                       LET earlier == {new[i] : i \in 1..(k - 1)}
                       IN  \/ new[k] = field_map[old[k]] /\ new[k] \notin earlier
                           \/ Suffixed(field_map[old[k]], new[k], earlier)]_vars

\* the columns abcdefghijkl, abcdefghij, "mianji" came out as abcdefghij,
\* abcdefgh_1, Area: the second name was cut to make room for its suffix
C26_Witness ==
    /\ pc = "sanitized"
    /\ ColumnNames(geodataframe) =
          << <<"a", "b", "c", "d", "e", "f", "g", "h", "i", "j">>,
             <<"a", "b", "c", "d", "e", "f", "g", "h", "_", "1">>,
             <<"A", "r", "e", "a">>,
             GeometryName >>


-----------------------------------------------------------------------------
(* Claims about the signals and the log lines of ConvertThread.run *)

\* the emissions so far are those of `done` files of a batch of n files
ProgressUpTo(done, n) ==
    \A k \in 1..done :
       signals[k] = [signal |-> "progress", args |-> <<k, n>>]

\* C27: for a batch of N files run emits progress_signal N times, with
\* (1, N), (2, N), ..., (N, N) in this order, the k-th with the outcome
\* line of the k-th file, failed or not, and then finished_signal once,
\* after the last progress emission; every batch that was started comes
\* to emit finished_signal.
C27_Signals ==
    /\ [](LET N == Len(file_paths)
          IN  /\ Len(signals) = current + (IF pc = "finished" THEN 1 ELSE 0)
              /\ ProgressUpTo(current, N)
              /\ pc = "finished" =>
                    /\ current = N
                    /\ signals[N + 1] = [signal |-> "finished", args |-> <<>>]
              /\ \A i \in 1..N :
                    LinesOf(i, OutcomeLines) # {} <=> i <= current)
    /\ <>(pc = "finished")

\* a batch of two files, the first failed and the second written: two
\* progress emissions and then finished_signal
C27_Witness ==
    /\ pc = "finished"
    /\ LinesOf(1, {"failed"}) # {} /\ LinesOf(2, {"complete"}) # {}
    /\ signals = <<[signal |-> "progress", args |-> <<1, 2>>],
                   [signal |-> "progress", args |-> <<2, 2>>],
                   [signal |-> "finished", args |-> <<>>]>>

\* C28: the success line of a file is emitted only if the output of the
\* file was written: no file of a batch has a success line and a failure
\* line in the log.
C28_AsClaimed ==
    \A i \in 1..Len(file_paths) :
       LinesOf(i, {"success"}) # {} =>
          LinesOf(i, {"failed", "failed_ellipsoid_0"}) = {}


-----------------------------------------------------------------------------
(* Claims about the convert button and the conversion threads *)

\* the threads that were started and whose run has not returned
RunningThreads == {i \in 1..Len(threads) : threads[i].at # "returned"}

\* C30: at most one conversion thread is running at any time;
\* start_conversion disables the convert button before it starts the
\* thread, only handle_convert_finished enables the button again, and
\* every conversion that was started comes to enable it; a start request
\* with no files or no output folder starts no thread and leaves the
\* button enabled.
C30_AsClaimed ==
    /\ [](Cardinality(RunningThreads) <= 1)
    /\ [][/\ threads' # threads /\ Len(threads') > Len(threads) =>
                convert_button /\ ~convert_button'
          /\ ~convert_button /\ convert_button' =>
                events' = events - 1 /\ infobar' = "finished"
          /\ infobar' \in {"no_files", "no_folder"} /\ infobar' # infobar =>
                threads' = threads /\ convert_button /\ convert_button']_vars
    /\ (~convert_button ~> convert_button)

=============================================================================
